---- MODULE Spec2Model ----
(***************************************************************************)
(* Icosahedral mesh hierarchy, mesh merge, edge extraction and the two     *)
(* grid/mesh spatial queries of ppsci/data/dataset/atmospheric_utils.py.   *)
(*                                                                         *)
(* Conventions                                                             *)
(*  - node, vertex and face indices are the 0-based indices of the code;   *)
(*    arrays are TLA+ sequences, so array[i] of the code is array[i + 1].  *)
(*  - a float coordinate x is the integer round(x * Scale) (fixed point).  *)
(*  - a 3-d position is a triple <<x, y, z>> of such coordinates.          *)
(***************************************************************************)
EXTENDS Integers, Sequences, FiniteSets, TLC

VARIABLES
    pc,                  \* position of the construction / of the call under study
    splits,              \* config.mesh_size, the argument `splits`
    split_i,             \* number of finished passes of the loop `for _ in range(splits)`
    current_mesh,        \* get_hierarchy_of_triangular_meshes_for_sphere: current_mesh
    output_meshes,       \* get_hierarchy_of_triangular_meshes_for_sphere: output_meshes
    builder,             \* the _ChildVerticesBuilder of the running subdivision pass
    new_faces,           \* _two_split_unit_sphere_triangle_faces: new_faces
    face_pos,            \* number of parent faces already split in the running pass
    meshes,              \* GraphGridMesh.meshes / the mesh_list handed to merge_meshes
    merged_mesh,         \* result of merge_meshes: [raised, vertices, faces]
    self,                \* the attributes of the GraphGridMesh instance other than
                         \* meshes: a record, one field per attribute already set
    config,              \* the argument config of GraphGridMesh.__init__
    step_log,            \* history: the build steps of __init__, or the update
                         \* calls on the built instance, in the order run
    call_log,            \* history: the get_new_child_vertex_index calls of a pass
    grid_latitude,       \* argument grid_latitude of the spatial queries
    grid_longitude,      \* argument grid_longitude of the spatial queries
    query_mesh,          \* argument mesh of the spatial queries
    radius,              \* argument radius of radius_query_indices
    radius_result,       \* result of radius_query_indices
    triangle_result,     \* result of in_mesh_triangle_indices
    args,                \* arguments of the function call under study
    result               \* what the function call under study returned or raised

vars == <<pc, splits, split_i, current_mesh, output_meshes, builder, new_faces,
          face_pos, meshes, merged_mesh, self, config, step_log, call_log,
          grid_latitude, grid_longitude, query_mesh, radius, radius_result,
          triangle_result, args, result>>

hierarchy_vars == <<splits, split_i, current_mesh, output_meshes, builder,
                    new_faces, face_pos>>

graph_vars == <<merged_mesh, self, config, step_log>>

query_vars == <<grid_latitude, grid_longitude, query_mesh, radius,
                radius_result, triangle_result>>

call_vars == <<args, result>>

(***************************************************************************)
(* Bounds of the model.                                                    *)
(***************************************************************************)
MaxSplits == 2

NumParents == 3

MaxCalls == 3

MaxLevels == 2

MaxVerts == 2

MaxGridLen == 2

MaxRefNodes == 2

MaxEdges == 2

\* the argument encoding_num_freqs of the calls under study
EncodingNumFreqs == 2

\* rounding error, in units of 1 / Scale, allowed to a product of rotations
Tolerance == 2

\* number of update calls on one instance
MaxUpdates == 2

\* size of the batch axis of the grid node outputs
MaxBatch == 2

\* size of the channels axis of the grid node outputs
MaxChannels == 4

\* number of workers that share one subdivision pass
NumWorkers == 2

\* number of parent faces of the pass the workers share
NumPassFaces == 2

(***************************************************************************)
(* Fixed-point arithmetic.                                                 *)
(***************************************************************************)
\* One unit of a float coordinate.
Scale == 1000

None == "None"

Abs(x) == IF x < 0 THEN -x ELSE x

\* a / b rounded to the nearest integer, b > 0 (float division followed by the
\* rounding of the result to the representable value).
RoundDiv(a, b) ==
    IF a >= 0 THEN (2 * a + b) \div (2 * b) ELSE -((2 * (-a) + b) \div (2 * b))

RECURSIVE ISqrtIter(_, _, _)
ISqrtIter(n, lo, hi) ==
    IF lo >= hi THEN lo
    ELSE LET mid == (lo + hi + 1) \div 2
         IN  IF mid * mid <= n THEN ISqrtIter(n, mid, hi) ELSE ISqrtIter(n, lo, mid - 1)

\* floor(sqrt(n)) for 0 <= n <= (4 * Scale)^2
ISqrt(n) == ISqrtIter(n, 0, 4 * Scale)

\* np.linalg.norm of a difference of two positions, squared (units Scale^2).
SquaredDistance(p, q) ==
    (p[1] - q[1]) * (p[1] - q[1]) + (p[2] - q[2]) * (p[2] - q[2])
        + (p[3] - q[3]) * (p[3] - q[3])

Range(s) == {s[i] : i \in DOMAIN s}

RECURSIVE SumSeq(_)
SumSeq(s) == IF s = <<>> THEN 0 ELSE Head(s) + SumSeq(Tail(s))

RECURSIVE Pow4(_)
Pow4(k) == IF k = 0 THEN 1 ELSE 4 * Pow4(k - 1)

(***************************************************************************)
(* get_icosahedron                                                         *)
(***************************************************************************)
\* phi = (1 + sqrt(5)) / 2
Phi == 1618

\* np.linalg.norm([1.0, phi])
NormOnePhi == 1902

\* cos and sin of rotation_angle = (pi - 2 * arcsin(phi / sqrt(3))) / 2
RotationCos == 934

RotationSin == 357

\* itertools.product([1.0, -1.0], [phi, -phi])
IcosahedronProduct ==
    << <<Scale, Phi>>, <<Scale, -Phi>>, <<-Scale, Phi>>, <<-Scale, -Phi>> >>

\* vertices /= np.linalg.norm([1.0, phi])
IcoNormalize(v) == [k \in 1..3 |-> RoundDiv(v[k] * Scale, NormOnePhi)]

\* np.dot(vertices, rotation_matrix) for the rotation about y: the row vector
\* v times [[cos, 0, sin], [0, 1, 0], [-sin, 0, cos]].
IcoRotate(v) ==
    << RoundDiv(v[1] * RotationCos - v[3] * RotationSin, Scale),
       v[2],
       RoundDiv(v[1] * RotationSin + v[3] * RotationCos, Scale) >>

IcosahedronVertices ==
    [n \in 1..12 |->
        LET c == IcosahedronProduct[((n - 1) \div 3) + 1]
            c1 == c[1]
            c2 == c[2]
            raw == CASE (n - 1) % 3 = 0 -> <<c1, c2, 0>>
                     [] (n - 1) % 3 = 1 -> <<0, c1, c2>>
                     [] OTHER           -> <<c2, 0, c1>>
        IN  IcoRotate(IcoNormalize(raw))]

IcosahedronFaces ==
    << <<0, 1, 2>>, <<0, 6, 1>>, <<8, 0, 2>>, <<8, 4, 0>>, <<3, 8, 2>>,
       <<3, 2, 7>>, <<7, 2, 1>>, <<0, 4, 6>>, <<4, 11, 6>>, <<6, 11, 5>>,
       <<1, 5, 7>>, <<4, 10, 11>>, <<4, 8, 10>>, <<10, 8, 3>>, <<10, 3, 9>>,
       <<11, 10, 9>>, <<11, 9, 5>>, <<5, 9, 7>>, <<9, 3, 7>>, <<1, 6, 5>> >>

\* TriangularMesh(vertices, faces)
TriangularMesh(vertices, faces) == [vertices |-> vertices, faces |-> faces]

get_icosahedron == TriangularMesh(IcosahedronVertices, IcosahedronFaces)

(***************************************************************************)
(* _ChildVerticesBuilder                                                   *)
(***************************************************************************)
\* _ChildVerticesBuilder.__init__
NewChildVerticesBuilder(parent_vertices) ==
    [child_vertices_index_mapping |-> <<>>,
     parent_vertices |-> parent_vertices,
     all_vertices_list |-> parent_vertices]

\* variant: the key keeps the order of the request (no sorted())
GetChildVertexKeyUnsorted(pvi) == pvi

\* _get_child_vertex_key: tuple(sorted(parent_vertex_indices))
GetChildVertexKey(pvi) == IF pvi[1] <= pvi[2] THEN pvi ELSE <<pvi[2], pvi[1]>>

\* The position of a new vertex: the mean of the two parents, divided by its
\* norm. The factor 1/2 of the mean cancels in the division, so the sum of the
\* parents is divided by the norm of the sum.
ChildVertexPosition(parent_vertices, pvi) ==
    LET p == parent_vertices[pvi[1] + 1]
        q == parent_vertices[pvi[2] + 1]
        m == [k \in 1..3 |-> p[k] + q[k]]
        norm == ISqrt(m[1] * m[1] + m[2] * m[2] + m[3] * m[3])
    IN  [k \in 1..3 |-> IF norm = 0 THEN 0 ELSE RoundDiv(m[k] * Scale, norm)]

\* variant: the new vertex is inserted in front of the list
CreateChildVertexInFront(b, pvi) ==
    [b EXCEPT
        !.child_vertices_index_mapping =
            (GetChildVertexKey(pvi) :> Len(b.all_vertices_list)) @@ @,
        !.all_vertices_list =
            <<ChildVertexPosition(b.parent_vertices, pvi)>> \o @]

\* _create_child_vertex
CreateChildVertex(b, pvi) ==
    [b EXCEPT
        !.child_vertices_index_mapping =
            (GetChildVertexKey(pvi) :> Len(b.all_vertices_list)) @@ @,
        !.all_vertices_list =
            Append(@, ChildVertexPosition(b.parent_vertices, pvi))]

\* variant: no lookup, every request creates a vertex
GetNewChildVertexIndexNoLookup(b, pvi) ==
    LET b2 == CreateChildVertex(b, pvi)
    IN  [builder |-> b2,
         index |-> b2.child_vertices_index_mapping[GetChildVertexKey(pvi)]]

\* get_new_child_vertex_index: the builder after the call and the index returned
GetNewChildVertexIndex(b, pvi) ==
    LET key == GetChildVertexKey(pvi)
        b2 == IF key \notin DOMAIN b.child_vertices_index_mapping
              THEN CreateChildVertex(b, pvi)
              ELSE b
    IN  [builder |-> b2, index |-> b2.child_vertices_index_mapping[key]]

\* get_all_vertices
GetAllVertices(b) == b.all_vertices_list

(***************************************************************************)
(* _two_split_unit_sphere_triangle_faces: the body of the loop over faces  *)
(***************************************************************************)
\* variant: the first child face is listed with the opposite orientation
ChildFacesFlipped(f, ind12, ind23, ind31) ==
    << <<f[1], ind31, ind12>>,
       <<ind12, f[2], ind23>>,
       <<ind31, ind23, f[3]>>,
       <<ind12, ind23, ind31>> >>

\* The four child faces that replace one parent face.
ChildFaces(f, ind12, ind23, ind31) ==
    << <<f[1], ind12, ind31>>,
       <<ind12, f[2], ind23>>,
       <<ind31, ind23, f[3]>>,
       <<ind12, ind23, ind31>> >>

\* One iteration: three index requests, then new_faces.extend(...)
SplitOneFace(b, f) ==
    LET r12 == GetNewChildVertexIndex(b, <<f[1], f[2]>>)
        r23 == GetNewChildVertexIndex(r12.builder, <<f[2], f[3]>>)
        r31 == GetNewChildVertexIndex(r23.builder, <<f[3], f[1]>>)
    IN  [builder |-> r31.builder,
         faces |-> ChildFaces(f, r12.index, r23.index, r31.index)]

(***************************************************************************)
(* faces_to_edges                                                          *)
(***************************************************************************)
\* faces[:, k] for the 0-based column k
FaceColumn(faces, k) == [i \in 1..Len(faces) |-> faces[i][k + 1]]

\* variant: the receivers of the third edge are taken from column 1
faces_to_edgesWrongColumn(faces) ==
    [senders |-> FaceColumn(faces, 0) \o FaceColumn(faces, 1) \o FaceColumn(faces, 2),
     receivers |-> FaceColumn(faces, 1) \o FaceColumn(faces, 2) \o FaceColumn(faces, 1)]

faces_to_edges(faces) ==
    [senders |-> FaceColumn(faces, 0) \o FaceColumn(faces, 1) \o FaceColumn(faces, 2),
     receivers |-> FaceColumn(faces, 1) \o FaceColumn(faces, 2) \o FaceColumn(faces, 0)]

(***************************************************************************)
(* merge_meshes                                                            *)
(***************************************************************************)
\* defaults of np.allclose: rtol = 1e-05, atol = 1e-08.  With a = A / Scale and
\* b = B / Scale, |a - b| <= atol + rtol * |b| is
\* |A - B| * RtolInverse <= AtolTimesRtolInverse + |B|.
RtolInverse == 100000

AtolTimesRtolInverse == 1

IsClose(a, b) == Abs(a - b) * RtolInverse <= AtolTimesRtolInverse + Abs(b)

PositionsClose(p, q) == \A k \in 1..3 : IsClose(p[k], q[k])

\* array[:n]
Prefix(array, n) == SubSeq(array, 1, IF n < Len(array) THEN n ELSE Len(array))

\* numpy broadcasting of the shapes (n, 3) and (m, 3)
Broadcastable(n, m) == n = m \/ n = 1 \/ m = 1

BroadcastLen(n, m) == IF n = 1 THEN m ELSE n

\* np.allclose(a, b): "raise" when the shapes do not broadcast (ValueError), else
\* "true" or "false", the value of all(isclose(a, b)) over the broadcast arrays.
AllClose(a, b) ==
    IF ~Broadcastable(Len(a), Len(b)) THEN "raise"
    ELSE IF \A i \in 1..BroadcastLen(Len(a), Len(b)) :
                PositionsClose(a[IF Len(a) = 1 THEN 1 ELSE i],
                               b[IF Len(b) = 1 THEN 1 ELSE i])
         THEN "true"
         ELSE "false"

\* the assert of one pair (mesh_i, mesh_ip1) passes; otherwise the call raises
\* (AssertionError, or the ValueError of np.allclose)
PairCheckPasses(mesh_i, mesh_ip1) ==
    AllClose(mesh_i.vertices,
             Prefix(mesh_ip1.vertices, Len(mesh_i.vertices))) = "true"

RECURSIVE ConcatFaces(_)
ConcatFaces(mesh_list) ==
    IF mesh_list = <<>> THEN <<>>
    ELSE Head(mesh_list).faces \o ConcatFaces(Tail(mesh_list))

\* variant: only the faces of the finest level are kept
merge_meshesFinestFacesOnly(mesh_list) ==
    IF \A i \in 1..(Len(mesh_list) - 1) : PairCheckPasses(mesh_list[i], mesh_list[i + 1])
    THEN [raised |-> FALSE,
          vertices |-> mesh_list[Len(mesh_list)].vertices,
          faces |-> mesh_list[Len(mesh_list)].faces]
    ELSE [raised |-> TRUE, vertices |-> None, faces |-> None]

merge_meshes(mesh_list) ==
    IF \A i \in 1..(Len(mesh_list) - 1) : PairCheckPasses(mesh_list[i], mesh_list[i + 1])
    THEN [raised |-> FALSE,
          vertices |-> mesh_list[Len(mesh_list)].vertices,
          faces |-> ConcatFaces(mesh_list)]
    ELSE [raised |-> TRUE, vertices |-> None, faces |-> None]

(***************************************************************************)
(* States of the variables a specification does not use                    *)
(***************************************************************************)
NoBuilder == NewChildVerticesBuilder(<<>>)

NoMesh == [raised |-> FALSE, vertices |-> None, faces |-> None]

NoQuery == [grid_edge_indices |-> None, mesh_edge_indices |-> None]

\* an instance on which no attribute has been set yet
NoAttributes == [name \in {} |-> None]

\* setattr for each field of the record new_attributes
SetAttributes(object, new_attributes) == new_attributes @@ object

QueryIdle ==
    /\ grid_latitude = <<>>
    /\ grid_longitude = <<>>
    /\ query_mesh = None
    /\ radius = 0
    /\ radius_result = NoQuery
    /\ triangle_result = NoQuery

GraphIdle ==
    /\ merged_mesh = NoMesh
    /\ self = NoAttributes
    /\ config = None
    /\ step_log = <<>>

CallIdle ==
    /\ args = None
    /\ result = None

(***************************************************************************)
(* _ChildVerticesBuilder under an arbitrary sequence of requests           *)
(***************************************************************************)
\* the parent vertices of the pass under study
BuilderParents == SubSeq(IcosahedronVertices, 1, NumParents)

InitBuilder ==
    /\ pc = "builder"
    /\ splits = 0
    /\ split_i = 0
    /\ current_mesh = TriangularMesh(BuilderParents, <<>>)
    /\ output_meshes = <<>>
    /\ builder = NewChildVerticesBuilder(BuilderParents)
    /\ new_faces = <<>>
    /\ face_pos = 0
    /\ meshes = None
    /\ call_log = <<>>
    /\ GraphIdle
    /\ QueryIdle
    /\ CallIdle

\* one call builder.get_new_child_vertex_index((p, q)); call_log records the
\* argument, the index returned and whether a vertex was appended
CallGetNewChildVertexIndex(p, q) ==
    /\ pc = "builder"
    /\ Len(call_log) < MaxCalls
    /\ LET r == GetNewChildVertexIndex(builder, <<p, q>>)
       IN  /\ builder' = r.builder
           /\ call_log' = Append(call_log,
                  [pvi |-> <<p, q>>,
                   index |-> r.index,
                   appended |-> Len(r.builder.all_vertices_list)
                                    - Len(builder.all_vertices_list)])
    /\ UNCHANGED <<pc, splits, split_i, current_mesh, output_meshes, new_faces,
                   face_pos, meshes>>
    /\ UNCHANGED graph_vars
    /\ UNCHANGED query_vars
    /\ UNCHANGED call_vars

NextBuilder ==
    \E p, q \in 0..(NumParents - 1) : p # q /\ CallGetNewChildVertexIndex(p, q)

SpecBuilder == InitBuilder /\ [][NextBuilder]_vars

(***************************************************************************)
(* merge_meshes on an arbitrary list of meshes                             *)
(***************************************************************************)
SeqsUpTo(S, n) == UNION {[1..k -> S] : k \in 0..n}

NonEmptySeqsUpTo(S, n) == UNION {[1..k -> S] : k \in 1..n}

\* positions the vertex arrays of the input meshes are drawn from
MergePositions == {<<Scale, 0, 0>>, <<0, Scale, 0>>}

MergeMeshInputs ==
    {TriangularMesh(v, f) : v \in SeqsUpTo(MergePositions, MaxVerts),
                            f \in {<<>>, << <<0, 0, 0>> >>}}

InitMerge ==
    /\ pc = "merge_meshes"
    /\ meshes \in NonEmptySeqsUpTo(MergeMeshInputs, MaxLevels)
    /\ splits = 0
    /\ split_i = 0
    /\ current_mesh = None
    /\ output_meshes = <<>>
    /\ builder = NoBuilder
    /\ new_faces = <<>>
    /\ face_pos = 0
    /\ call_log = <<>>
    /\ GraphIdle
    /\ QueryIdle
    /\ CallIdle

\* merged_mesh = merge_meshes(mesh_list)
CallMergeMeshes ==
    /\ pc = "merge_meshes"
    /\ merged_mesh' = merge_meshes(meshes)
    /\ pc' = IF merged_mesh'.raised THEN "error" ELSE "merged"
    /\ UNCHANGED hierarchy_vars
    /\ UNCHANGED <<meshes, call_log, self, config, step_log>>
    /\ UNCHANGED query_vars
    /\ UNCHANGED call_vars

NextMerge == CallMergeMeshes

SpecMerge == InitMerge /\ [][NextMerge]_vars

(***************************************************************************)
(* Angles and _grid_lat_lon_to_coordinates                                 *)
(***************************************************************************)
\* round(Scale * cos(d degrees)) for d = 0..90
CosTable ==
    << 1000, 1000, 999, 999, 998, 996, 995, 993, 990, 988,
       985, 982, 978, 974, 970, 966, 961, 956, 951, 946,
       940, 934, 927, 921, 914, 906, 899, 891, 883, 875,
       866, 857, 848, 839, 829, 819, 809, 799, 788, 777,
       766, 755, 743, 731, 719, 707, 695, 682, 669, 656,
       643, 629, 616, 602, 588, 574, 559, 545, 530, 515,
       500, 485, 469, 454, 438, 423, 407, 391, 375, 358,
       342, 326, 309, 292, 276, 259, 242, 225, 208, 191,
       174, 156, 139, 122, 105, 87, 70, 52, 35, 17, 0 >>

\* np.cos of an angle of d degrees, d an integer; an angle in radians is held
\* as the number of degrees it measures
CosDeg(d) ==
    LET a == d % 360
    IN  IF a <= 90 THEN CosTable[a + 1]
        ELSE IF a <= 180 THEN -CosTable[180 - a + 1]
        ELSE IF a <= 270 THEN -CosTable[a - 180 + 1]
        ELSE CosTable[360 - a + 1]

\* np.sin(np.deg2rad(d))
SinDeg(d) == CosDeg(d + 270)

\* np.meshgrid(np.deg2rad(grid_longitude), np.deg2rad(90 - grid_latitude)) and
\* the stacked coordinates, an array [num_lat, num_lon, 3]: azimuth phi is the
\* longitude, polar angle theta is 90 - latitude.
GridLatLonToCoordinates(lat, lon) ==
    [i \in 1..Len(lat) |->
        [j \in 1..Len(lon) |->
            LET phi == lon[j]
                theta == 90 - lat[i]
            IN  << RoundDiv(CosDeg(phi) * SinDeg(theta), Scale),
                   RoundDiv(SinDeg(phi) * SinDeg(theta), Scale),
                   CosDeg(theta) >>]]

\* variant of ReshapeFlat: the flat index runs over the latitudes first
ReshapeFlatLongitudeMajor(array, num_lat, num_lon) ==
    [n \in 1..(num_lat * num_lon) |->
        array[((n - 1) % num_lat) + 1][((n - 1) \div num_lat) + 1]]

\* array.reshape([-1, 3]) of an array [num_lat, num_lon, 3] (row-major)
ReshapeFlat(array, num_lat, num_lon) ==
    [n \in 1..(num_lat * num_lon) |->
        array[((n - 1) \div num_lon) + 1][((n - 1) % num_lon) + 1]]

GridPositions(lat, lon) ==
    ReshapeFlat(GridLatLonToCoordinates(lat, lon), Len(lat), Len(lon))

RECURSIVE ConcatAll(_)
\* np.concatenate(list_of_arrays, axis=0)
ConcatAll(arrays) ==
    IF arrays = <<>> THEN <<>> ELSE Head(arrays) \o ConcatAll(Tail(arrays))

\* np.repeat(value, count)
Repeat(value, count) == [k \in 1..count |-> value]

(***************************************************************************)
(* radius_query_indices                                                    *)
(***************************************************************************)
\* variant: only the points at distance < r
QueryBallPointStrict(points, x, r) ==
    SelectSeq([m \in 1..Len(points) |-> m - 1],
              LAMBDA m : SquaredDistance(points[m + 1], x) < r * r)

\* scipy.spatial.cKDTree(points).query_ball_point(x, r) for one point x: the
\* indices of the points at Euclidean distance <= r, in ascending order
QueryBallPoint(points, x, r) ==
    SelectSeq([m \in 1..Len(points) |-> m - 1],
              LAMBDA m : SquaredDistance(points[m + 1], x) <= r * r)

\* variant: the tree is built over the grid and queried with the mesh vertices,
\* so the pairs come out mesh-vertex-major
radius_query_indicesMeshMajor(lat, lon, mesh, r) ==
    LET grid_positions == GridPositions(lat, lon)
        query_indices == [m \in 1..Len(mesh.vertices) |->
                             QueryBallPoint(grid_positions, mesh.vertices[m], r)]
    IN  [grid_edge_indices |-> ConcatAll(query_indices),
         mesh_edge_indices |->
             ConcatAll([m \in 1..Len(mesh.vertices) |->
                           Repeat(m - 1, Len(query_indices[m]))])]

radius_query_indices(lat, lon, mesh, r) ==
    LET grid_positions == GridPositions(lat, lon)
        query_indices == [g \in 1..Len(grid_positions) |->
                             QueryBallPoint(mesh.vertices, grid_positions[g], r)]
    IN  [grid_edge_indices |->
             ConcatAll([g \in 1..Len(grid_positions) |->
                           Repeat(g - 1, Len(query_indices[g]))]),
         mesh_edge_indices |-> ConcatAll(query_indices)]

(***************************************************************************)
(* in_mesh_triangle_indices                                                *)
(***************************************************************************)
MinOfSet(S) == CHOOSE m \in S : \A x \in S : m <= x

\* three times the squared distance measure between a point and a face: the
\* point against the centroid of the face (both scaled by 3)
FaceDistance(mesh, f, x) ==
    LET a == mesh.vertices[mesh.faces[f + 1][1] + 1]
        b == mesh.vertices[mesh.faces[f + 1][2] + 1]
        c == mesh.vertices[mesh.faces[f + 1][3] + 1]
    IN  SquaredDistance([k \in 1..3 |-> a[k] + b[k] + c[k]],
                        [k \in 1..3 |-> 3 * x[k]])

\* trimesh.proximity.closest_point(mesh, points)[2] for one point: the index of
\* a nearest face. Which of several equally near faces is returned is left to
\* the library: `tie` selects the lowest or the highest index among them.
ClosestFace(mesh, x, tie) ==
    LET F == 0..(Len(mesh.faces) - 1)
        smallest == MinOfSet({FaceDistance(mesh, f, x) : f \in F})
        nearest == {f \in F : FaceDistance(mesh, f, x) = smallest}
    IN  IF tie = "lowest" THEN MinOfSet(nearest) ELSE -MinOfSet({-f : f \in nearest})

\* variant: np.tile(grid_indices, 3) without the reshape to a column
in_mesh_triangle_indicesTiled(lat, lon, mesh, tie) ==
    LET grid_positions == GridPositions(lat, lon)
        query_face_indices == [g \in 1..Len(grid_positions) |->
                                  ClosestFace(mesh, grid_positions[g], tie)]
    IN  [grid_edge_indices |->
             ConcatAll([k \in 1..3 |-> [g \in 1..Len(grid_positions) |-> g - 1]]),
         mesh_edge_indices |->
             ConcatAll([g \in 1..Len(grid_positions) |->
                           mesh.faces[query_face_indices[g] + 1]])]

in_mesh_triangle_indices(lat, lon, mesh, tie) ==
    LET grid_positions == GridPositions(lat, lon)
        query_face_indices == [g \in 1..Len(grid_positions) |->
                                  ClosestFace(mesh, grid_positions[g], tie)]
    IN  [grid_edge_indices |->
             ConcatAll([g \in 1..Len(grid_positions) |-> Repeat(g - 1, 3)]),
         mesh_edge_indices |->
             ConcatAll([g \in 1..Len(grid_positions) |->
                           mesh.faces[query_face_indices[g] + 1]])]

(***************************************************************************)
(* The two spatial queries on arbitrary grids and meshes                   *)
(***************************************************************************)
LatValues == {0, 45, 90}

LonValues == {0, 90, 180}

RadiusValues == {0, Scale, 2 * Scale}

\* a closed mesh whose vertices are the six axis points of the unit sphere
AxisMesh ==
    TriangularMesh(
        << <<0, 0, Scale>>, <<Scale, 0, 0>>, <<0, Scale, 0>>,
           <<-Scale, 0, 0>>, <<0, -Scale, 0>>, <<0, 0, -Scale>> >>,
        << <<0, 1, 2>>, <<0, 2, 3>>, <<0, 3, 4>>, <<0, 4, 1>>,
           <<5, 2, 1>>, <<5, 3, 2>>, <<5, 4, 3>>, <<5, 1, 4>> >>)

\* a single face with two vertices at the same position
TwinMesh ==
    TriangularMesh(<< <<0, 0, Scale>>, <<0, 0, Scale>>, <<Scale, 0, 0>> >>,
                   << <<2, 0, 1>> >>)

QueryMeshInputs == {get_icosahedron, AxisMesh, TwinMesh}

InitQuery ==
    /\ pc = "query"
    /\ grid_latitude \in NonEmptySeqsUpTo(LatValues, MaxGridLen)
    /\ grid_longitude \in NonEmptySeqsUpTo(LonValues, MaxGridLen)
    /\ query_mesh \in QueryMeshInputs
    /\ radius \in RadiusValues
    /\ radius_result = NoQuery
    /\ triangle_result = NoQuery
    /\ splits = 0
    /\ split_i = 0
    /\ current_mesh = None
    /\ output_meshes = <<>>
    /\ builder = NoBuilder
    /\ new_faces = <<>>
    /\ face_pos = 0
    /\ meshes = None
    /\ call_log = <<>>
    /\ GraphIdle
    /\ CallIdle

\* radius_result = radius_query_indices(grid_latitude=..., grid_longitude=...,
\*                                      mesh=..., radius=...)
CallRadiusQueryIndices ==
    /\ pc = "query"
    /\ radius_result' =
           radius_query_indices(grid_latitude, grid_longitude, query_mesh, radius)
    /\ pc' = "radius_done"
    /\ UNCHANGED hierarchy_vars
    /\ UNCHANGED graph_vars
    /\ UNCHANGED <<meshes, call_log, grid_latitude, grid_longitude, query_mesh,
                   radius, triangle_result>>
    /\ UNCHANGED call_vars

\* triangle_result = in_mesh_triangle_indices(grid_latitude=...,
\*                                            grid_longitude=..., mesh=...)
CallInMeshTriangleIndices ==
    /\ pc = "query"
    /\ \E tie \in {"lowest", "highest"} :
           triangle_result' =
               in_mesh_triangle_indices(grid_latitude, grid_longitude, query_mesh, tie)
    /\ pc' = "triangle_done"
    /\ UNCHANGED hierarchy_vars
    /\ UNCHANGED graph_vars
    /\ UNCHANGED <<meshes, call_log, grid_latitude, grid_longitude, query_mesh,
                   radius, radius_result>>
    /\ UNCHANGED call_vars

NextQuery ==
    \/ CallRadiusQueryIndices
    \/ CallInMeshTriangleIndices

SpecQuery == InitQuery /\ [][NextQuery]_vars

(***************************************************************************)
(* Properties                                                              *)
(***************************************************************************)
\* a is an exact prefix of b
IsPrefixOf(a, b) == Len(a) <= Len(b) /\ \A i \in 1..Len(a) : a[i] = b[i]

\* the undirected edges {i, j} of a face list
UndirectedEdges(faces) ==
    UNION {{{f[1], f[2]}, {f[2], f[3]}, {f[3], f[1]}} : f \in Range(faces)}

\* number of occurrences of the directed edge s -> r in an edge list, with the
\* positions of the edges indexed by sender
EdgePositionsBySender(e) ==
    LET nodes == Range(e.senders) \cup Range(e.receivers)
        largest == CHOOSE m \in nodes : \A s \in nodes : s <= m
    IN  IF nodes = {} THEN <<>>
        ELSE [s \in 1..(largest + 1) |->
                 {i \in 1..Len(e.senders) : e.senders[i] = s - 1}] \o <<>>

EdgeCount(e, bySender, s, r) ==
    Cardinality({i \in bySender[s + 1] : e.receivers[i] = r})

\* every edge s -> r occurs as often as r -> s
ReversalClosed(e) ==
    LET bySender == EdgePositionsBySender(e)
    IN  \A i \in 1..Len(e.senders) :
            EdgeCount(e, bySender, e.senders[i], e.receivers[i])
                = EdgeCount(e, bySender, e.receivers[i], e.senders[i])

\* every directed edge of the face list occurs exactly once
EachDirectedEdgeOnce(faces) ==
    LET e == faces_to_edges(faces)
        bySender == EdgePositionsBySender(e)
    IN  \A i \in 1..Len(e.senders) :
            EdgeCount(e, bySender, e.senders[i], e.receivers[i]) = 1

HierarchyReturned == pc \in {"mesh_graph", "done"}

\* C1: the hierarchy of depth d has d + 1 meshes, coarsest first; level 0 has
\* 12 vertices and 20 faces, level k has 20 * 4^k faces, and level k + 1 has as
\* many vertices as level k plus one per distinct undirected edge of level k
\* (12, 42, 162, ...).
C1_HierarchyCounts ==
    HierarchyReturned =>
        /\ Len(meshes) = splits + 1
        /\ Len(meshes[1].vertices) = 12
        /\ Len(meshes[1].faces) = 20
        /\ \A k \in 1..Len(meshes) :
              /\ Len(meshes[k].faces) = 20 * Pow4(k - 1)
              /\ Len(meshes[k].vertices) = 10 * Pow4(k - 1) + 2
        /\ \A k \in 1..(Len(meshes) - 1) :
              Len(meshes[k + 1].vertices) =
                  Len(meshes[k].vertices) + Cardinality(UndirectedEdges(meshes[k].faces))

C1_Witness ==
    /\ pc = "done"
    /\ splits = 2
    /\ Len(meshes) = 3
    /\ Len(meshes[2].vertices) = 42
    /\ Len(meshes[3].vertices) = 162

\* the vertex arrays of the levels built so far are nested
NestedLevels ==
    \A i, j \in 1..Len(output_meshes) :
        i < j => IsPrefixOf(output_meshes[i].vertices, output_meshes[j].vertices)

\* a step of a subdivision pass keeps every vertex of the builder in place and
\* only appends; the mesh a pass returns starts with the parent's vertices
AppendOnlyStep ==
    /\ (pc = "split" /\ pc' = "split") =>
           /\ builder'.parent_vertices = builder.parent_vertices
           /\ IsPrefixOf(builder.all_vertices_list, builder'.all_vertices_list)
    /\ pc' = "split" =>
           IsPrefixOf(current_mesh'.vertices, builder'.all_vertices_list)
    /\ (pc = "split" /\ pc' = "hierarchy") =>
           /\ current_mesh'.vertices = builder.all_vertices_list
           /\ IsPrefixOf(current_mesh.vertices, current_mesh'.vertices)

\* C2: nesting invariant: for all levels i < j the vertex array of level i is
\* the prefix of the vertex array of level j, and a subdivision pass only
\* appends vertices behind the parent vertices, never reordering, removing or
\* changing an existing one.
C2_Nesting == []NestedLevels /\ [][AppendOnlyStep]_vars

C2_Witness ==
    /\ pc = "done"
    /\ Len(output_meshes) = 3
    /\ Len(output_meshes[1].vertices) < Len(output_meshes[2].vertices)
    /\ Len(output_meshes[2].vertices) < Len(output_meshes[3].vertices)

\* the unordered parent pair of the k-th call
RequestedPair(k) == {call_log[k].pvi[1], call_log[k].pvi[2]}

\* C3: in one pass every requested unordered parent pair has exactly one child
\* vertex: (p, q) and (q, p) get the same index, a vertex is appended only on
\* the first request of a pair, distinct pairs get distinct indices, and the
\* indices are len(parent_vertices), len(parent_vertices) + 1, ... in the
\* order of first request.
C3_OneChildPerPair ==
    pc = "builder" =>
        /\ \A k \in 1..Len(call_log) :
              LET first == \A j \in 1..(k - 1) : RequestedPair(j) # RequestedPair(k)
                  rank == Cardinality({RequestedPair(j) : j \in 1..k})
              IN  /\ call_log[k].appended = IF first THEN 1 ELSE 0
                  /\ first => call_log[k].index = Len(BuilderParents) + rank - 1
                  /\ \A j \in 1..k :
                        (RequestedPair(j) = RequestedPair(k))
                            <=> (call_log[j].index = call_log[k].index)
        /\ Len(builder.all_vertices_list) =
               Len(BuilderParents)
                   + Cardinality({RequestedPair(k) : k \in 1..Len(call_log)})
        /\ IsPrefixOf(BuilderParents, builder.all_vertices_list)

C3_Witness ==
    /\ pc = "builder"
    /\ Len(call_log) = 3
    /\ call_log[1].pvi = <<0, 1>>
    /\ call_log[2].pvi = <<1, 2>>
    /\ call_log[3].pvi = <<1, 0>>
    /\ call_log[3].index = call_log[1].index
    /\ call_log[3].appended = 0

\* C4: the directed edges faces_to_edges yields for the merged mesh of a
\* hierarchy, and for every single level of it, are closed under reversal:
\* every edge (s, r) occurs as often as (r, s).
C4_EdgesClosedUnderReversal ==
    pc = "done" =>
        /\ ReversalClosed([senders |-> self.mesh2mesh_src_index,
                           receivers |-> self.mesh2mesh_dst_index])
        /\ ReversalClosed(faces_to_edges(merged_mesh.faces))
        /\ \A k \in 1..Len(meshes) : ReversalClosed(faces_to_edges(meshes[k].faces))

C4_Witness ==
    /\ pc = "done"
    /\ splits = 2
    /\ Len(self.mesh2mesh_src_index) = 1260
    /\ \E i, j \in 1..Len(self.mesh2mesh_src_index) :
          /\ i # j
          /\ self.mesh2mesh_src_index[i] = self.mesh2mesh_dst_index[j]
          /\ self.mesh2mesh_dst_index[i] = self.mesh2mesh_src_index[j]

\* the faces of `child` are, parent face by parent face, the four child faces
\* (a, ab, ca), (ab, b, bc), (ca, bc, c), (ab, bc, ca) around the midpoints
FourChildFacesPerParent(parent, child) ==
    /\ Len(child.faces) = 4 * Len(parent.faces)
    /\ \A i \in 1..Len(parent.faces) :
          LET f == parent.faces[i]
              c1 == child.faces[4 * (i - 1) + 1]
              c2 == child.faces[4 * (i - 1) + 2]
              c3 == child.faces[4 * (i - 1) + 3]
              c4 == child.faces[4 * (i - 1) + 4]
              ab == c1[2]
              ca == c1[3]
              bc == c2[3]
              IsMidpoint(m, p, q) ==
                  /\ m \in Len(parent.vertices)..(Len(child.vertices) - 1)
                  /\ child.vertices[m + 1] = ChildVertexPosition(parent.vertices, <<p, q>>)
          IN  /\ c1 = <<f[1], ab, ca>>
              /\ c2 = <<ab, f[2], bc>>
              /\ c3 = <<ca, bc, f[3]>>
              /\ c4 = <<ab, bc, ca>>
              /\ IsMidpoint(ab, f[1], f[2])
              /\ IsMidpoint(bc, f[2], f[3])
              /\ IsMidpoint(ca, f[3], f[1])

\* C5: a subdivision pass replaces every parent face (a, b, c), in parent-face
\* order, by the four child faces (a, ab, ca), (ab, b, bc), (ca, bc, c),
\* (ab, bc, ca); every child face indexes a vertex of the new vertex array, and
\* orientation is kept: if every directed edge of the parent occurs once, so
\* does every directed edge of the child.
C5_FourChildFaces ==
    pc = "hierarchy" =>
    \A k \in 1..(Len(output_meshes) - 1) :
        LET parent == output_meshes[k]
            child == output_meshes[k + 1]
        IN  /\ FourChildFacesPerParent(parent, child)
            /\ \A i \in 1..Len(child.faces) : \A c \in 1..3 :
                  child.faces[i][c] \in 0..(Len(child.vertices) - 1)
            /\ EachDirectedEdgeOnce(parent.faces) => EachDirectedEdgeOnce(child.faces)

C5_Witness ==
    /\ pc = "hierarchy"
    /\ Len(output_meshes) = 3
    /\ Len(output_meshes[3].faces) = 320
    /\ EachDirectedEdgeOnce(output_meshes[2].faces)
    /\ output_meshes[2].faces[1] = <<0, 12, 14>>

\* some consecutive pair of levels violates the nesting: the coarser vertex
\* array is not a prefix of the finer one (the finer one may also be shorter)
NestingViolated(mesh_list) ==
    \E i \in 1..(Len(mesh_list) - 1) :
        ~IsPrefixOf(mesh_list[i].vertices, mesh_list[i + 1].vertices)

MergeReturned == pc \in {"merged", "error"}

\* C6: merge_meshes raises whenever for some pair of consecutive levels the
\* coarser vertex array is not a prefix of the finer one, also when the finer
\* level has fewer vertices, and succeeds only when every consecutive pair is
\* nested.
C6_MergeFailsIffNotNested ==
    MergeReturned => (merged_mesh.raised <=> NestingViolated(meshes))

\* position of the first face of level k in the concatenated face list
FaceOffset(mesh_list, k) == SumSeq([j \in 1..(k - 1) |-> Len(mesh_list[j].faces)])

\* C7: when merge_meshes succeeds the merged mesh has the vertex array of the
\* finest level and the faces of all levels, concatenated coarsest first, none
\* dropped or deduplicated: sum of 20 * 4^k faces for k = 0..d, and the
\* mesh-to-mesh graph has three times as many edges.
C7_MergedMesh ==
    pc = "done" =>
        /\ ~merged_mesh.raised
        /\ merged_mesh.vertices = meshes[Len(meshes)].vertices
        /\ Len(merged_mesh.faces) = SumSeq([k \in 1..Len(meshes) |-> Len(meshes[k].faces)])
        /\ \A k \in 1..Len(meshes) : \A i \in 1..Len(meshes[k].faces) :
              merged_mesh.faces[FaceOffset(meshes, k) + i] = meshes[k].faces[i]
        /\ Len(merged_mesh.faces) = SumSeq([k \in 1..(splits + 1) |-> 20 * Pow4(k - 1)])
        /\ Len(self.mesh2mesh_src_index) = 3 * Len(merged_mesh.faces)
        /\ Len(self.mesh2mesh_dst_index) = 3 * Len(merged_mesh.faces)
        /\ self.mesh_num_edges = 3 * Len(merged_mesh.faces)

C7_Witness ==
    /\ pc = "done"
    /\ splits = 2
    /\ Len(merged_mesh.faces) = 420
    /\ Len(merged_mesh.vertices) = 162
    /\ self.mesh_num_edges = 1260

\* number of grid points and of mesh vertices of the query under study
NumGridPoints == Len(grid_latitude) * Len(grid_longitude)

NumMeshVertices == Len(query_mesh.vertices)

\* grid point g (0-based) and mesh vertex m (0-based) are within distance r
WithinRadius(g, m, r) ==
    SquaredDistance(GridPositions(grid_latitude, grid_longitude)[g + 1],
                    query_mesh.vertices[m + 1]) <= r * r

\* the (grid index, mesh index) pairs of the radius query's result
RadiusResultPairs ==
    {<<radius_result.grid_edge_indices[k], radius_result.mesh_edge_indices[k]>> :
        k \in 1..Len(radius_result.grid_edge_indices)}

\* C8 as stated: a radius query with radius 0 yields zero edges, for every grid
\* and every mesh, also when a grid point coincides with a mesh vertex.
C8_RadiusZeroNoEdges ==
    (pc = "radius_done" /\ radius = 0) =>
        /\ Len(radius_result.grid_edge_indices) = 0
        /\ Len(radius_result.mesh_edge_indices) = 0

\* C8 amended: a radius query with radius 0 yields exactly the pairs of a grid
\* point and a mesh vertex at the same position, each once; zero edges exactly
\* when no grid point coincides with a mesh vertex.
C8_RadiusZeroCoincident ==
    (pc = "radius_done" /\ radius = 0) =>
        LET coincident ==
                {<<g, m>> \in (0..(NumGridPoints - 1)) \X (0..(NumMeshVertices - 1)) :
                    GridPositions(grid_latitude, grid_longitude)[g + 1]
                        = query_mesh.vertices[m + 1]}
        IN  /\ RadiusResultPairs = coincident
            /\ Len(radius_result.grid_edge_indices) = Cardinality(coincident)
            /\ Len(radius_result.mesh_edge_indices) = Cardinality(coincident)

C8_Witness ==
    /\ pc = "radius_done"
    /\ radius = 0
    /\ query_mesh = AxisMesh
    /\ grid_latitude = <<90, 45>>
    /\ Len(radius_result.grid_edge_indices) = Len(grid_longitude)

\* C9: for every radius r the radius query returns exactly the (grid index,
\* mesh index) pairs within Euclidean distance r, each once, as two index
\* arrays of equal length, grid-point-major (the grid indices never decrease);
\* with r at least the diameter 2 of the sphere it returns every pair.
C9_RadiusQuery ==
    pc = "radius_done" =>
        LET gi == radius_result.grid_edge_indices
            mi == radius_result.mesh_edge_indices
        IN  /\ Len(gi) = Len(mi)
            /\ \A k \in 1..Len(gi) :
                  /\ gi[k] \in 0..(NumGridPoints - 1)
                  /\ mi[k] \in 0..(NumMeshVertices - 1)
            /\ \A g \in 0..(NumGridPoints - 1) : \A m \in 0..(NumMeshVertices - 1) :
                  Cardinality({k \in 1..Len(gi) : gi[k] = g /\ mi[k] = m})
                      = IF WithinRadius(g, m, radius) THEN 1 ELSE 0
            /\ \A k \in 1..(Len(gi) - 1) : gi[k] <= gi[k + 1]
            /\ radius >= 2 * Scale => Len(gi) = NumGridPoints * NumMeshVertices

C9_Witness ==
    /\ pc = "radius_done"
    /\ radius = Scale
    /\ query_mesh = get_icosahedron
    /\ NumGridPoints = 4
    /\ Len(radius_result.grid_edge_indices) > 0
    /\ Len(radius_result.grid_edge_indices) < NumGridPoints * NumMeshVertices
    /\ \E k \in 1..(Len(radius_result.grid_edge_indices) - 1) :
          radius_result.grid_edge_indices[k] < radius_result.grid_edge_indices[k + 1]

\* C10: the point-location query returns exactly 3 * num_grid_points edges: the
\* grid indices are 0,0,0,1,1,1,...,G-1,G-1,G-1 and the three mesh indices of a
\* grid point are the vertex indices of one face of the mesh, in the vertex
\* order of that face.
C10_ThreeEdgesPerGridPoint ==
    pc = "triangle_done" =>
        LET gi == triangle_result.grid_edge_indices
            mi == triangle_result.mesh_edge_indices
        IN  /\ Len(gi) = 3 * NumGridPoints
            /\ Len(mi) = 3 * NumGridPoints
            /\ \A k \in 1..Len(gi) : gi[k] = (k - 1) \div 3
            /\ \A g \in 0..(NumGridPoints - 1) :
                  \E f \in 1..Len(query_mesh.faces) :
                      <<mi[3 * g + 1], mi[3 * g + 2], mi[3 * g + 3]>> = query_mesh.faces[f]

C10_Witness ==
    /\ pc = "triangle_done"
    /\ query_mesh = AxisMesh
    /\ NumGridPoints = 4
    /\ Len(triangle_result.mesh_edge_indices) = 12
    /\ SubSeq(triangle_result.mesh_edge_indices, 1, 3)
           # SubSeq(triangle_result.mesh_edge_indices, 10, 12)

(***************************************************************************)
(* Spherical coordinates and the rotation to local coordinates             *)
(***************************************************************************)
\* lat_lon_deg_to_spherical: phi = deg2rad(node_lon), theta = deg2rad(90 - node_lat)
lat_lon_deg_to_spherical(node_lat, node_lon) ==
    [phi |-> [i \in 1..Len(node_lon) |-> node_lon[i]],
     theta |-> [i \in 1..Len(node_lat) |-> 90 - node_lat[i]]]

\* spherical_to_cartesian: the three arrays x, y, z
spherical_to_cartesian(phi, theta) ==
    << [i \in 1..Len(phi) |-> RoundDiv(CosDeg(phi[i]) * SinDeg(theta[i]), Scale)],
       [i \in 1..Len(phi) |-> RoundDiv(SinDeg(phi[i]) * SinDeg(theta[i]), Scale)],
       [i \in 1..Len(theta) |-> CosDeg(theta[i])] >>

\* np.stack(arrays, axis=-1) of 1-d arrays of one length n: n rows, one column
\* per array
StackLast(arrays, n) ==
    [i \in 1..n |-> [k \in 1..Len(arrays) |-> arrays[k][i]]]

\* the rotation by `angle` about one axis of the fixed frame, as a matrix (a
\* triple of rows)
AxisRotation(axis, angle) ==
    LET c == CosDeg(angle)
        s == SinDeg(angle)
    IN  IF axis = "z"
        THEN << <<c, -s, 0>>, <<s, c, 0>>, <<0, 0, Scale>> >>
        ELSE << <<c, 0, s>>, <<0, Scale, 0>>, <<-s, 0, c>> >>

\* entry (i, j) of the product of two matrices
MatMulEntry(A, B, i, j) ==
    RoundDiv(A[i][1] * B[1][j] + A[i][2] * B[2][j] + A[i][3] * B[3][j], Scale)

MatMul(A, B) ==
    << <<MatMulEntry(A, B, 1, 1), MatMulEntry(A, B, 1, 2), MatMulEntry(A, B, 1, 3)>>,
       <<MatMulEntry(A, B, 2, 1), MatMulEntry(A, B, 2, 2), MatMulEntry(A, B, 2, 3)>>,
       <<MatMulEntry(A, B, 3, 1), MatMulEntry(A, B, 3, 2), MatMulEntry(A, B, 3, 3)>> >>

\* Rotation.from_euler(seq, angles).as_matrix() for one row of angles and a
\* lower-case seq (extrinsic rotations): the rotation about seq[1] acts first,
\* the one about the last axis acts last
RECURSIVE from_euler(_, _)
from_euler(seq, angles) ==
    IF Len(seq) = 1
    THEN AxisRotation(seq[1], angles[1])
    ELSE MatMul(AxisRotation(seq[Len(seq)], angles[Len(seq)]),
                from_euler(SubSeq(seq, 1, Len(seq) - 1),
                           SubSeq(angles, 1, Len(seq) - 1)))

\* variant of get_rotation_matrices_to_local_coordinates: no rotation instead
\* of the ValueError when neither flag is set
get_rotation_matrices_to_local_coordinatesNoRaise(reference_phi, reference_theta, rotate_latitude, rotate_longitude) ==
    [raised |-> FALSE,
     matrices |-> [b \in 1..Len(reference_phi) |->
                      IF rotate_longitude
                      THEN from_euler(<<"z">>, <<-reference_phi[b]>>)
                      ELSE from_euler(<<"z">>, <<0>>)]]

\* get_rotation_matrices_to_local_coordinates; azimuthal_rotation = -phi,
\* polar_rotation = -theta + pi/2
get_rotation_matrices_to_local_coordinates(reference_phi, reference_theta, rotate_latitude, rotate_longitude) ==
    IF rotate_longitude /\ rotate_latitude
    THEN [raised |-> FALSE,
          matrices |-> [b \in 1..Len(reference_phi) |->
                           from_euler(<<"z", "y">>,
                                      <<-reference_phi[b], -reference_theta[b] + 90>>)]]
    ELSE IF rotate_longitude
    THEN [raised |-> FALSE,
          matrices |-> [b \in 1..Len(reference_phi) |->
                           from_euler(<<"z">>, <<-reference_phi[b]>>)]]
    ELSE IF rotate_latitude
    THEN [raised |-> FALSE,
          matrices |-> [b \in 1..Len(reference_phi) |->
                           from_euler(<<"z", "y", "z">>,
                                      <<-reference_phi[b], -reference_theta[b] + 90,
                                        reference_phi[b]>>)]]
    ELSE [raised |-> TRUE, matrices |-> None]

\* variant of rotate_with_matrices: einsum("bij,bi->bj"), the transposed matrices
rotate_with_matricesTransposed(rotation_matrices, positions) ==
    [b \in 1..Len(positions) |->
        LET M == rotation_matrices[b]
            p == positions[b]
        IN  << RoundDiv(M[1][1] * p[1] + M[2][1] * p[2] + M[3][1] * p[3], Scale),
               RoundDiv(M[1][2] * p[1] + M[2][2] * p[2] + M[3][2] * p[3], Scale),
               RoundDiv(M[1][3] * p[1] + M[2][3] * p[2] + M[3][3] * p[3], Scale) >>]

\* rotate_with_matrices: np.einsum("bji,bi->bj", rotation_matrices, positions)
rotate_with_matrices(rotation_matrices, positions) ==
    [b \in 1..Len(positions) |->
        LET M == rotation_matrices[b]
            p == positions[b]
        IN  << RoundDiv(M[1][1] * p[1] + M[1][2] * p[2] + M[1][3] * p[3], Scale),
               RoundDiv(M[2][1] * p[1] + M[2][2] * p[2] + M[2][3] * p[3], Scale),
               RoundDiv(M[3][1] * p[1] + M[3][2] * p[2] + M[3][3] * p[3], Scale) >>]

(***************************************************************************)
(* The rotation engine on arbitrary reference nodes                        *)
(***************************************************************************)
\* azimuths and polar angles (degrees) the reference nodes are drawn from
PhiValues == {0, 37, 135, 300}

ThetaValues == {0, 60, 90, 151}

ReferenceNodes == [phi : PhiValues, theta : ThetaValues]

NodeField(nodes, name) == [i \in 1..Len(nodes) |-> nodes[i][name]]

InitRotation ==
    /\ pc = "rotation"
    /\ \E nodes \in NonEmptySeqsUpTo(ReferenceNodes, MaxRefNodes) :
       \E rotate_latitude, rotate_longitude \in BOOLEAN :
           args = [reference_phi |-> NodeField(nodes, "phi"),
                   reference_theta |-> NodeField(nodes, "theta"),
                   rotate_latitude |-> rotate_latitude,
                   rotate_longitude |-> rotate_longitude]
    /\ result = None
    /\ splits = 0
    /\ split_i = 0
    /\ current_mesh = None
    /\ output_meshes = <<>>
    /\ builder = NoBuilder
    /\ new_faces = <<>>
    /\ face_pos = 0
    /\ meshes = None
    /\ call_log = <<>>
    /\ GraphIdle
    /\ QueryIdle

\* rotation_matrices = get_rotation_matrices_to_local_coordinates(...)
CallGetRotationMatrices ==
    /\ pc = "rotation"
    /\ LET r == get_rotation_matrices_to_local_coordinates(
                    args.reference_phi, args.reference_theta,
                    args.rotate_latitude, args.rotate_longitude)
       IN  /\ result' = [raised |-> r.raised, matrices |-> r.matrices, rotated |-> None]
           /\ pc' = IF r.raised THEN "error" ELSE "matrices"
    /\ UNCHANGED hierarchy_vars
    /\ UNCHANGED graph_vars
    /\ UNCHANGED query_vars
    /\ UNCHANGED <<meshes, call_log, args>>

\* rotate_with_matrices(rotation_matrices, positions) on the reference nodes'
\* own unit positions
CallRotateWithMatrices ==
    /\ pc = "matrices"
    /\ result' = [result EXCEPT !.rotated =
           rotate_with_matrices(
               result.matrices,
               StackLast(spherical_to_cartesian(args.reference_phi,
                                                args.reference_theta),
                         Len(args.reference_phi)))]
    /\ pc' = "rotated"
    /\ UNCHANGED hierarchy_vars
    /\ UNCHANGED graph_vars
    /\ UNCHANGED query_vars
    /\ UNCHANGED <<meshes, call_log, args>>

NextRotation ==
    \/ CallGetRotationMatrices
    \/ CallRotateWithMatrices

SpecRotation == InitRotation /\ [][NextRotation]_vars

\* C11: with rotate_latitude = False and rotate_longitude = False
\* get_rotation_matrices_to_local_coordinates raises and returns no matrices;
\* with at least one flag set it returns one rotation matrix per reference node.
C11_RotationFlags ==
    pc \in {"error", "matrices"} =>
        IF ~args.rotate_latitude /\ ~args.rotate_longitude
        THEN pc = "error" /\ result.raised /\ result.matrices = None
        ELSE /\ pc = "matrices"
             /\ ~result.raised
             /\ Len(result.matrices) = Len(args.reference_phi)

C11_Witness ==
    /\ pc = "error"
    /\ ~args.rotate_latitude
    /\ ~args.rotate_longitude
    /\ Len(args.reference_phi) = 2
    /\ result.raised

\* distance of two fixed-point numbers within the rounding of the model
Near(a, b) == Abs(a - b) <= Tolerance

\* the unit position of reference node b
OwnPosition(b) ==
    StackLast(spherical_to_cartesian(args.reference_phi, args.reference_theta),
              Len(args.reference_phi))[b]

\* C18: the matrix of a reference node applied to the node's own unit
\* position gives azimuth 0 (y = 0, x >= 0) when rotate_longitude is set and
\* polar angle 90 degrees (z = 0) when rotate_latitude is set; with both set
\* the node maps to (1, 0, 0); with latitude only the azimuth is the node's own.
C18_LocalCoordinates ==
    pc = "rotated" =>
        \A b \in 1..Len(result.rotated) :
            LET p == result.rotated[b]
            IN  /\ args.rotate_longitude => Near(p[2], 0) /\ p[1] >= -Tolerance
                /\ args.rotate_latitude => Near(p[3], 0)
                /\ args.rotate_longitude /\ args.rotate_latitude =>
                       Near(p[1], Scale)
                /\ args.rotate_latitude /\ ~args.rotate_longitude =>
                       /\ Near(p[1], CosDeg(args.reference_phi[b]))
                       /\ Near(p[2], SinDeg(args.reference_phi[b]))

C18_Witness ==
    /\ pc = "rotated"
    /\ args.rotate_latitude
    /\ ~args.rotate_longitude
    /\ args.reference_phi = <<135, 300>>
    /\ args.reference_theta = <<60, 151>>
    /\ Near(result.rotated[1][1], CosDeg(135))
    /\ Near(result.rotated[1][2], SinDeg(135))
    /\ Near(result.rotated[1][3], 0)

(***************************************************************************)
(* Relative positions of the edges in the receivers' local coordinates     *)
(***************************************************************************)
\* array[indices] for an array of rows and 0-based indices
Gather(array, indices) == [e \in 1..Len(indices) |-> array[indices[e] + 1]]

\* a - b for two arrays of positions of one length
RowsMinus(a, b) ==
    [e \in 1..Len(a) |->
        LET p == a[e]
            q == b[e]
        IN  <<p[1] - q[1], p[2] - q[2], p[3] - q[3]>>]

\* variant of get_bipartite_relative_position_in_receiver_local_coordinates:
\* the edges are rotated by the matrices of their senders' indices
get_bipartite_relative_position_in_receiver_local_coordinatesBySender(senders_node_phi, senders_node_theta, senders, receivers_node_phi, receivers_node_theta, receivers, latitude_local_coordinates, longitude_local_coordinates) ==
    LET senders_node_pos ==
            StackLast(spherical_to_cartesian(senders_node_phi, senders_node_theta),
                      Len(senders_node_phi))
        receivers_node_pos ==
            StackLast(spherical_to_cartesian(receivers_node_phi, receivers_node_theta),
                      Len(receivers_node_phi))
    IN  IF ~(latitude_local_coordinates \/ longitude_local_coordinates)
        THEN [raised |-> FALSE, rotation_calls |-> 0,
              value |-> RowsMinus(Gather(senders_node_pos, senders),
                                  Gather(receivers_node_pos, receivers))]
        ELSE LET r == get_rotation_matrices_to_local_coordinates(
                          receivers_node_phi, receivers_node_theta,
                          latitude_local_coordinates, longitude_local_coordinates)
                 edge_rotation_matrices ==
                     [e \in 1..Len(senders) |->
                         r.matrices[(senders[e] % Len(receivers_node_phi)) + 1]]
             IN  [raised |-> FALSE, rotation_calls |-> 1,
                  value |-> RowsMinus(
                      rotate_with_matrices(edge_rotation_matrices,
                                           Gather(senders_node_pos, senders)),
                      rotate_with_matrices(edge_rotation_matrices,
                                           Gather(receivers_node_pos, receivers)))]

\* get_bipartite_relative_position_in_receiver_local_coordinates; the result
\* records the number of calls of the rotation engine
get_bipartite_relative_position_in_receiver_local_coordinates(senders_node_phi, senders_node_theta, senders, receivers_node_phi, receivers_node_theta, receivers, latitude_local_coordinates, longitude_local_coordinates) ==
    LET senders_node_pos ==
            StackLast(spherical_to_cartesian(senders_node_phi, senders_node_theta),
                      Len(senders_node_phi))
        receivers_node_pos ==
            StackLast(spherical_to_cartesian(receivers_node_phi, receivers_node_theta),
                      Len(receivers_node_phi))
    IN  IF ~(latitude_local_coordinates \/ longitude_local_coordinates)
        THEN [raised |-> FALSE, rotation_calls |-> 0,
              value |-> RowsMinus(Gather(senders_node_pos, senders),
                                  Gather(receivers_node_pos, receivers))]
        ELSE LET r == get_rotation_matrices_to_local_coordinates(
                          receivers_node_phi, receivers_node_theta,
                          latitude_local_coordinates, longitude_local_coordinates)
             IN  IF r.raised
                 THEN [raised |-> TRUE, rotation_calls |-> 1, value |-> None]
                 ELSE LET edge_rotation_matrices == Gather(r.matrices, receivers)
                      IN  [raised |-> FALSE, rotation_calls |-> 1,
                           value |-> RowsMinus(
                               rotate_with_matrices(edge_rotation_matrices,
                                                    Gather(senders_node_pos, senders)),
                               rotate_with_matrices(edge_rotation_matrices,
                                                    Gather(receivers_node_pos, receivers)))]

\* get_relative_position_in_receiver_local_coordinates: senders and receivers
\* index one node array
get_relative_position_in_receiver_local_coordinates(node_phi, node_theta, senders, receivers, latitude_local_coordinates, longitude_local_coordinates) ==
    LET node_pos == StackLast(spherical_to_cartesian(node_phi, node_theta), Len(node_phi))
    IN  IF ~(latitude_local_coordinates \/ longitude_local_coordinates)
        THEN [raised |-> FALSE, rotation_calls |-> 0,
              value |-> RowsMinus(Gather(node_pos, senders), Gather(node_pos, receivers))]
        ELSE LET r == get_rotation_matrices_to_local_coordinates(
                          node_phi, node_theta,
                          latitude_local_coordinates, longitude_local_coordinates)
             IN  IF r.raised
                 THEN [raised |-> TRUE, rotation_calls |-> 1, value |-> None]
                 ELSE LET edge_rotation_matrices == Gather(r.matrices, receivers)
                      IN  [raised |-> FALSE, rotation_calls |-> 1,
                           value |-> RowsMinus(
                               rotate_with_matrices(edge_rotation_matrices,
                                                    Gather(node_pos, senders)),
                               rotate_with_matrices(edge_rotation_matrices,
                                                    Gather(node_pos, receivers)))]

(***************************************************************************)
(* get_graph_spatial_features, get_bipartite_graph_spatial_features        *)
(***************************************************************************)
\* the float nan, held as an integer no coordinate or feature can take
NaN == -1000000000

\* x / d for fixed-point x and d; 0 / 0 is nan (a non-zero x over d = 0 does
\* not occur: d is the maximum of the norms, or a non-zero factor)
Divide(x, d) ==
    IF x = NaN \/ d = NaN \/ d = 0 THEN NaN ELSE RoundDiv(x * Scale, d)

\* np.linalg.norm(relative_position, axis=-1, keepdims=True)
Norms(relative_position) ==
    [e \in 1..Len(relative_position) |->
        ISqrt(SquaredDistance(relative_position[e], <<0, 0, 0>>))]

MaxOfSet(S) == CHOOSE m \in S : \A x \in S : x <= m

\* array.max() of a non-empty array
ArrayMax(array) == MaxOfSet(Range(array))

\* a numpy array: its shape and its elements as nested sequences
NdArray(shape, data) == [shape |-> shape, data |-> data]

\* np.concatenate([relative_edge_distances / factor, relative_position / factor],
\*                axis=-1): the [num_edges, 1] distances before the
\* [num_edges, 3] positions
NormalizedEdgeFeatures(relative_position, factor) ==
    LET relative_edge_distances == Norms(relative_position)
    IN  NdArray(<<Len(relative_position), 1 + 3>>,
                [e \in 1..Len(relative_position) |->
                    LET p == relative_position[e]
                    IN  << Divide(relative_edge_distances[e], factor),
                           Divide(p[1], factor),
                           Divide(p[2], factor),
                           Divide(p[3], factor) >>])

\* np.zeros([num_rows, 0])
ZeroColumns(num_rows) == NdArray(<<num_rows, 0>>, [i \in 1..num_rows |-> <<>>])

\* np.stack(columns, axis=-1) of a non-empty list of arrays of length num_rows
StackColumns(columns, num_rows) ==
    NdArray(<<num_rows, Len(columns)>>, StackLast(columns, num_rows))

\* the list node_features: the columns the three toggles ask for
NodeFeatureColumns(node_phi, node_theta, add_node_positions, add_node_latitude, add_node_longitude) ==
    (IF add_node_positions THEN spherical_to_cartesian(node_phi, node_theta) ELSE <<>>)
    \o (IF add_node_latitude
        THEN << [i \in 1..Len(node_theta) |-> CosDeg(node_theta[i])] >>
        ELSE <<>>)
    \o (IF add_node_longitude
        THEN << [i \in 1..Len(node_phi) |-> CosDeg(node_phi[i])],
                [i \in 1..Len(node_phi) |-> SinDeg(node_phi[i])] >>
        ELSE <<>>)

\* the default of encoding_multiplicative_factor, 1.2
EncodingMultiplicativeFactor == 1200

\* the default of encoding_num_freqs
DefaultEncodingNumFreqs == 10

\* encoding_multiplicative_factor ** k
RECURSIVE Freq(_, _)
Freq(factor, k) == IF k = 0 THEN Scale ELSE RoundDiv(factor * Freq(factor, k - 1), Scale)

\* np.sin / np.cos of a fixed-point number of radians
SinRad(x) == IF x = NaN THEN NaN ELSE SinDeg(RoundDiv(x * 180, 3142))

CosRad(x) == IF x = NaN THEN NaN ELSE CosDeg(RoundDiv(x * 180, 3142))

Phase(factor, k, x) == IF x = NaN THEN NaN ELSE RoundDiv(Freq(factor, k) * x, Scale)

\* sine_cosine_transform: per feature the sines of all phases, then the
\* cosines; reshape([x.shape[0], -1]) raises for an array without rows
sine_cosine_transform(x, encoding_num_freqs, encoding_multiplicative_factor) ==
    IF x.shape[1] = 0
    THEN [raised |-> TRUE, value |-> None]
    ELSE [raised |-> FALSE,
          value |-> NdArray(
              <<x.shape[1], x.shape[2] * 2 * encoding_num_freqs>>,
              [i \in 1..x.shape[1] |->
                  ConcatAll([f \in 1..x.shape[2] |->
                      [k \in 1..encoding_num_freqs |->
                          SinRad(Phase(encoding_multiplicative_factor, k - 1,
                                       x.data[i][f]))]
                      \o [k \in 1..encoding_num_freqs |->
                          CosRad(Phase(encoding_multiplicative_factor, k - 1,
                                       x.data[i][f]))]])])]

NoFeatures == [raised |-> TRUE, node_features |-> None, edge_features |-> None]

\* variant of get_graph_spatial_features: no rows when no node feature is asked for
get_graph_spatial_featuresNoRows(a) ==
    LET angles == lat_lon_deg_to_spherical(a.node_lat, a.node_lon)
        columns == NodeFeatureColumns(angles.phi, angles.theta, a.add_node_positions,
                                      a.add_node_latitude, a.add_node_longitude)
    IN  [raised |-> FALSE,
         node_features |-> IF columns = <<>> THEN ZeroColumns(0)
                           ELSE StackColumns(columns, Len(a.node_lat)),
         edge_features |-> ZeroColumns(Len(a.senders))]

\* get_graph_spatial_features(**a)
get_graph_spatial_features(a) ==
    LET num_nodes == Len(a.node_lat)
        num_edges == Len(a.senders)
        angles == lat_lon_deg_to_spherical(a.node_lat, a.node_lon)
        columns == NodeFeatureColumns(angles.phi, angles.theta, a.add_node_positions,
                                      a.add_node_latitude, a.add_node_longitude)
        node_features == IF columns = <<>> THEN ZeroColumns(num_nodes)
                         ELSE StackColumns(columns, num_nodes)
        relative_position ==
            get_relative_position_in_receiver_local_coordinates(
                angles.phi, angles.theta, a.senders, a.receivers,
                a.relative_latitude_local_coordinates,
                a.relative_longitude_local_coordinates)
        edge_features ==
            IF a.add_relative_positions
            THEN NormalizedEdgeFeatures(relative_position.value,
                                        ArrayMax(Norms(relative_position.value)))
            ELSE ZeroColumns(num_edges)
        encoded_nodes == sine_cosine_transform(node_features, a.encoding_num_freqs,
                                               a.encoding_multiplicative_factor)
        encoded_edges == sine_cosine_transform(edge_features, a.encoding_num_freqs,
                                               a.encoding_multiplicative_factor)
    IN  IF a.add_relative_positions /\ (relative_position.raised \/ num_edges = 0)
        THEN NoFeatures
        ELSE IF ~a.sine_cosine_encoding
        THEN [raised |-> FALSE, node_features |-> node_features,
              edge_features |-> edge_features]
        ELSE IF encoded_nodes.raised \/ encoded_edges.raised
        THEN NoFeatures
        ELSE [raised |-> FALSE, node_features |-> encoded_nodes.value,
              edge_features |-> encoded_edges.value]

NoBipartiteFeatures ==
    [raised |-> TRUE, senders_node_features |-> None,
     receivers_node_features |-> None, edge_features |-> None]

\* get_bipartite_graph_spatial_features(**a); edge_normalization_factor is the
\* empty sequence for None and <<factor>> otherwise
get_bipartite_graph_spatial_features(a) ==
    LET num_senders == Len(a.senders_node_lat)
        num_receivers == Len(a.receivers_node_lat)
        num_edges == Len(a.senders)
        s == lat_lon_deg_to_spherical(a.senders_node_lat, a.senders_node_lon)
        r == lat_lon_deg_to_spherical(a.receivers_node_lat, a.receivers_node_lon)
        senders_columns ==
            NodeFeatureColumns(s.phi, s.theta, a.add_node_positions,
                               a.add_node_latitude, a.add_node_longitude)
        receivers_columns ==
            NodeFeatureColumns(r.phi, r.theta, a.add_node_positions,
                               a.add_node_latitude, a.add_node_longitude)
        relative_position ==
            get_bipartite_relative_position_in_receiver_local_coordinates(
                s.phi, s.theta, a.senders, r.phi, r.theta, a.receivers,
                a.relative_latitude_local_coordinates,
                a.relative_longitude_local_coordinates)
        edge_normalization_factor ==
            IF a.edge_normalization_factor = <<>>
            THEN ArrayMax(Norms(relative_position.value))
            ELSE a.edge_normalization_factor[1]
    IN  IF a.add_relative_positions
           /\ (relative_position.raised
               \/ (a.edge_normalization_factor = <<>> /\ num_edges = 0))
        THEN NoBipartiteFeatures
        ELSE [raised |-> FALSE,
              senders_node_features |->
                  IF senders_columns = <<>> THEN ZeroColumns(num_senders)
                  ELSE StackColumns(senders_columns, num_senders),
              receivers_node_features |->
                  IF senders_columns = <<>> THEN ZeroColumns(num_receivers)
                  ELSE StackColumns(receivers_columns, num_receivers),
              edge_features |->
                  IF a.add_relative_positions
                  THEN NormalizedEdgeFeatures(relative_position.value,
                                              edge_normalization_factor)
                  ELSE ZeroColumns(num_edges)]

(***************************************************************************)
(* GraphGridMesh.__init__ from a configuration, step by step               *)
(***************************************************************************)
RECURSIVE ArcCosSearch(_, _, _)
\* the whole number of degrees in lo..hi whose cosine is nearest to z, for
\* CosDeg(lo) >= z >= CosDeg(hi)
ArcCosSearch(z, lo, hi) ==
    IF hi - lo <= 1
    THEN IF CosDeg(lo) - z <= z - CosDeg(hi) THEN lo ELSE hi
    ELSE LET mid == (lo + hi) \div 2
         IN  IF CosDeg(mid) >= z THEN ArcCosSearch(z, mid, hi)
             ELSE ArcCosSearch(z, lo, mid)

\* np.arccos(z), in degrees, for -1 <= z <= 1
ArcCosDeg(z) == ArcCosSearch(z, 0, 180)

\* np.arctan2(y, x), in degrees: in (-180, 180], 0 for x = y = 0
ArcTan2Deg(y, x) ==
    LET r == ISqrt(x * x + y * y)
    IN  IF r = 0 THEN 0
        ELSE IF y >= 0 THEN ArcCosDeg(RoundDiv(x * Scale, r))
        ELSE -ArcCosDeg(RoundDiv(x * Scale, r))

\* cartesian_to_spherical on the columns of an array of unit positions
cartesian_to_spherical(positions) ==
    [phi |-> [i \in 1..Len(positions) |-> ArcTan2Deg(positions[i][2], positions[i][1])],
     theta |-> [i \in 1..Len(positions) |-> ArcCosDeg(positions[i][3])]]

\* spherical_to_lat_lon: lon = mod(rad2deg(phi), 360), lat = 90 - rad2deg(theta)
spherical_to_lat_lon(phi, theta) ==
    [lat |-> [i \in 1..Len(theta) |-> 90 - theta[i]],
     lon |-> [i \in 1..Len(phi) |-> phi[i] % 360]]

\* np.arange(start, stop, step) for step > 0
Arange(start, stop, step) ==
    [i \in 1..((stop - start + step - 1) \div step) |-> start + (i - 1) * step]

\* variant of expand_dims: np.expand_dims(array, axis=-1)
expand_dimsLast(array) ==
    NdArray(<<array.shape[1], array.shape[2], 1>>,
            [i \in 1..array.shape[1] |->
                [j \in 1..array.shape[2] |-> <<array.data[i][j]>>]])

\* np.expand_dims(array, axis=1) of a 2-d array
expand_dims(array) ==
    NdArray(<<array.shape[1], 1, array.shape[2]>>,
            [i \in 1..array.shape[1] |-> <<array.data[i]>>])

\* variant of len: the size of the last axis
lenOfLastAxis(array) == array.shape[Len(array.shape)]

\* len(array): the size of the first axis
len(array) == array.shape[1]

\* GraphGridMesh.finest_mesh
finest_mesh == meshes[Len(meshes)]

\* GraphGridMesh._get_max_edge_distance(mesh)
_get_max_edge_distance(mesh) ==
    LET edges == faces_to_edges(mesh.faces)
    IN  ArrayMax([e \in 1..Len(edges.senders) |->
                     ISqrt(SquaredDistance(mesh.vertices[edges.senders[e] + 1],
                                           mesh.vertices[edges.receivers[e] + 1]))])

\* the sixteen public topology/count/feature fields (all_input_vars)
PublicFields ==
    {"mesh2mesh_src_index", "mesh2mesh_dst_index", "grid2mesh_src_index",
     "grid2mesh_dst_index", "mesh2grid_src_index", "mesh2grid_dst_index",
     "mesh_num_nodes", "grid_num_nodes", "mesh_num_edges", "grid2mesh_num_edges",
     "mesh2grid_num_edges", "grid_node_feat", "mesh_node_feat", "mesh_edge_feat",
     "grid2mesh_edge_feat", "mesh2grid_edge_feat"}

\* the sixteen arrays and counts handed to __init__: none is None, so
\* should_init is False and each is stored as given
PrecomputedInputs ==
    {[mesh2mesh_src_index |-> <<0, 1>>,
      mesh2mesh_dst_index |-> <<1, 0>>,
      grid2mesh_src_index |-> <<0>>,
      grid2mesh_dst_index |-> <<1>>,
      mesh2grid_src_index |-> <<1>>,
      mesh2grid_dst_index |-> <<0>>,
      mesh_num_nodes |-> 2,
      grid_num_nodes |-> n,
      mesh_num_edges |-> 2,
      grid2mesh_num_edges |-> 1,
      mesh2grid_num_edges |-> 1,
      grid_node_feat |-> NdArray(<<n, 1, 1>>, [i \in 1..n |-> <<<<0>>>>]),
      mesh_node_feat |-> NdArray(<<2, 1, 1>>, <<<<<<0>>>>, <<<<Scale>>>>>>),
      mesh_edge_feat |-> NdArray(<<2, 1, 1>>, <<<<<<Scale>>>>, <<<<Scale>>>>>>),
      grid2mesh_edge_feat |-> NdArray(<<1, 1, 1>>, <<<<<<Scale>>>>>>),
      mesh2grid_edge_feat |-> NdArray(<<1, 1, 1>>, <<<<<<Scale>>>>>>)] : n \in 1..2}

\* the flags of _spatial_features_kwargs as __init__ sets them
HardCodedFlags ==
    [add_node_positions |-> FALSE,
     add_node_latitude |-> TRUE,
     add_node_longitude |-> TRUE,
     add_relative_positions |-> TRUE,
     relative_longitude_local_coordinates |-> TRUE,
     relative_latitude_local_coordinates |-> TRUE]

\* feature-inclusion flags written into a configuration that differ from
\* HardCodedFlags: positions asked for, latitude not
OtherFlags ==
    [HardCodedFlags EXCEPT !.add_node_positions = TRUE, !.add_node_latitude = FALSE]

\* the configurations the construction is run on: grid resolution in degrees,
\* fraction of the longest mesh edge used as query radius, optional
\* normalization factor of the mesh-to-grid edges (<<>> for None), and the
\* feature-inclusion flags written into the configuration
ConfigInputs ==
    {flags @@ base :
        flags \in {HardCodedFlags},
        base \in [resolution : {45, 90},
                    radius_query_fraction_edge_length : {(6 * Scale) \div 10},
                    mesh2grid_edge_normalization_factor : {<<>>, <<2 * Scale>>}]}
    \cup {OtherFlags @@ [resolution |-> 90,
                         radius_query_fraction_edge_length |-> (6 * Scale) \div 10,
                         mesh2grid_edge_normalization_factor |-> <<>>]}

\* the sixteen optional arguments of __init__, <<>> for None: none given
NoneSupplied == [field \in PublicFields |-> <<>>]

\* all sixteen given
AllSupplied(precomputed) == [field \in PublicFields |-> <<precomputed[field]>>]

\* all given but `missing`
AllSuppliedBut(precomputed, missing) ==
    [field \in PublicFields |->
        IF field = missing THEN <<>> ELSE <<precomputed[field]>>]

\* the constructor calls under study: every configuration with no array
\* given, and one configuration with all sixteen given or with one missing
ConstructorInputs ==
    {[config |-> c, supplied |-> NoneSupplied] : c \in ConfigInputs}
    \cup {[config |-> CHOOSE c \in ConfigInputs :
                          /\ c.resolution = 90
                          /\ c.mesh2grid_edge_normalization_factor = <<>>
                          /\ c.add_node_latitude,
           supplied |-> supplied] :
              supplied \in {AllSupplied(precomputed) : precomputed \in PrecomputedInputs}
                  \cup {AllSuppliedBut(precomputed, "mesh2grid_edge_feat") :
                            precomputed \in {CHOOSE q \in PrecomputedInputs :
                                                 q.grid_num_nodes = 1}}}

\* variant of should_init: all(var is None for var in all_input_vars)
should_initWhenAllMissing(supplied) ==
    \A field \in PublicFields : supplied[field] = <<>>

\* should_init = any(var is None for var in all_input_vars)
should_init(supplied) ==
    \E field \in PublicFields : supplied[field] = <<>>

\* the attributes of the instance that are set
Attributes == DOMAIN self \cup {"meshes"}

\* entry of step_log: the step, the attributes it reads, those set at its start
StepEntry(step, reads, had) == [step |-> step, reads |-> reads, had |-> had]

\* the calls of __init__ after the configuration is read, in program order
BuildOrder ==
    <<"mesh_properties", "grid_properties", "grid2mesh_graph", "mesh_graph",
      "mesh2grid_graph", "done">>

\* variant of NextStep: the mesh graph is built before the grid-to-mesh graph
NextStepMeshGraphFirst(step) ==
    CASE step = "mesh_properties" -> "grid_properties"
      [] step = "grid_properties" -> "mesh_graph"
      [] step = "mesh_graph" -> "grid2mesh_graph"
      [] step = "grid2mesh_graph" -> "mesh2grid_graph"
      [] step = "mesh2grid_graph" -> "done"

\* the position of __init__ after the call `step` returned
NextStep(step) ==
    BuildOrder[(CHOOSE k \in 1..(Len(BuildOrder) - 1) : BuildOrder[k] = step) + 1]

\* get_hierarchy_of_triangular_meshes_for_sphere up to the loop
Init ==
    /\ pc = "hierarchy"
    /\ splits \in 0..MaxSplits
    /\ split_i = 0
    /\ current_mesh = get_icosahedron
    /\ output_meshes = <<get_icosahedron>>
    /\ builder = NoBuilder
    /\ new_faces = <<>>
    /\ face_pos = 0
    /\ meshes = None
    /\ call_log = <<>>
    /\ merged_mesh = NoMesh
    /\ self = NoAttributes
    /\ \E input \in ConstructorInputs :
           /\ config = input.config
           /\ args = input.supplied
    /\ step_log = <<>>
    /\ QueryIdle
    /\ result = None

\* entry of _two_split_unit_sphere_triangle_faces(current_mesh)
StartSplit ==
    /\ pc = "hierarchy"
    /\ split_i < splits
    /\ builder' = NewChildVerticesBuilder(current_mesh.vertices)
    /\ new_faces' = <<>>
    /\ face_pos' = 0
    /\ pc' = "split"
    /\ UNCHANGED <<splits, split_i, current_mesh, output_meshes, meshes, call_log>>
    /\ UNCHANGED graph_vars
    /\ UNCHANGED query_vars
    /\ UNCHANGED call_vars

\* one iteration of `for ind1, ind2, ind3 in triangular_mesh.faces`
SplitFace ==
    /\ pc = "split"
    /\ face_pos < Len(current_mesh.faces)
    /\ LET r == SplitOneFace(builder, current_mesh.faces[face_pos + 1])
       IN  /\ builder' = r.builder
           /\ new_faces' = new_faces \o r.faces
    /\ face_pos' = face_pos + 1
    /\ UNCHANGED <<pc, splits, split_i, current_mesh, output_meshes, meshes, call_log>>
    /\ UNCHANGED graph_vars
    /\ UNCHANGED query_vars
    /\ UNCHANGED call_vars

\* return of _two_split_unit_sphere_triangle_faces; output_meshes.append
FinishSplit ==
    /\ pc = "split"
    /\ face_pos = Len(current_mesh.faces)
    /\ current_mesh' = TriangularMesh(GetAllVertices(builder), new_faces)
    /\ output_meshes' = Append(output_meshes, current_mesh')
    /\ split_i' = split_i + 1
    /\ pc' = "hierarchy"
    /\ UNCHANGED <<splits, builder, new_faces, face_pos, meshes, call_log>>
    /\ UNCHANGED graph_vars
    /\ UNCHANGED query_vars
    /\ UNCHANGED call_vars

\* self.meshes = get_hierarchy_of_triangular_meshes_for_sphere(config.mesh_size)
ReturnHierarchy ==
    /\ pc = "hierarchy"
    /\ split_i = splits
    /\ meshes' = output_meshes
    /\ step_log' = Append(step_log, StepEntry("hierarchy", {}, {}))
    /\ pc' = "configure"
    /\ UNCHANGED hierarchy_vars
    /\ UNCHANGED <<call_log, merged_mesh, self, config>>
    /\ UNCHANGED query_vars
    /\ UNCHANGED call_vars

\* variant of spatial_features_kwargs: the flags are read from the configuration
spatial_features_kwargsFromConfig(configuration) ==
    [flag \in DOMAIN HardCodedFlags |-> configuration[flag]]

\* self._spatial_features_kwargs = dict(add_node_positions=False, ...): the
\* configuration is not read
spatial_features_kwargs(configuration) == HardCodedFlags

\* should_init: self.query_radius, self._mesh2grid_edge_normalization_factor,
\* self._spatial_features_kwargs
ConfigureBuild ==
    /\ pc = "configure"
    /\ should_init(args)
    /\ self' = SetAttributes(self,
           [query_radius |->
                RoundDiv(_get_max_edge_distance(finest_mesh)
                             * config.radius_query_fraction_edge_length, Scale),
            _mesh2grid_edge_normalization_factor |->
                config.mesh2grid_edge_normalization_factor,
            _spatial_features_kwargs |-> spatial_features_kwargs(config)])
    /\ pc' = BuildOrder[1]
    /\ UNCHANGED hierarchy_vars
    /\ UNCHANGED <<meshes, call_log, merged_mesh, config, step_log>>
    /\ UNCHANGED query_vars
    /\ UNCHANGED call_vars

\* the else branch of should_init: each argument is stored in the attribute
\* of its name, None included
StoreSupplied ==
    /\ pc = "configure"
    /\ ~should_init(args)
    /\ self' = SetAttributes(self,
           [field \in PublicFields |->
               IF args[field] = <<>> THEN None ELSE args[field][1]])
    /\ pc' = "stored"
    /\ UNCHANGED hierarchy_vars
    /\ UNCHANGED <<meshes, call_log, merged_mesh, config, step_log>>
    /\ UNCHANGED query_vars
    /\ UNCHANGED call_vars

\* what a build step leaves alone besides pc, self, step_log
BuildStepUnchanged ==
    /\ UNCHANGED hierarchy_vars
    /\ UNCHANGED <<meshes, call_log, config>>
    /\ UNCHANGED query_vars
    /\ UNCHANGED call_vars

\* self.init_mesh_properties()
InitMeshProperties ==
    /\ pc = "mesh_properties"
    /\ step_log' = Append(step_log,
           StepEntry("mesh_properties", {"meshes"}, Attributes))
    /\ LET angles == cartesian_to_spherical(finest_mesh.vertices)
           lat_lon == spherical_to_lat_lon(angles.phi, angles.theta)
       IN  self' = SetAttributes(self,
               [mesh_num_nodes |-> Len(finest_mesh.vertices),
                _mesh_nodes_lat |-> lat_lon.lat,
                _mesh_nodes_lon |-> lat_lon.lon])
    /\ pc' = NextStep("mesh_properties")
    /\ UNCHANGED merged_mesh
    /\ BuildStepUnchanged

\* self._init_grid_properties(grid_lat=np.arange(-90.0, 90.0 + resolution,
\* resolution), grid_lon=np.arange(0.0, 360.0, resolution))
InitGridProperties ==
    /\ pc = "grid_properties"
    /\ step_log' = Append(step_log, StepEntry("grid_properties", {}, Attributes))
    /\ LET grid_lat == Arange(-90, 90 + config.resolution, config.resolution)
           grid_lon == Arange(0, 360, config.resolution)
       IN  self' = SetAttributes(self,
               [_grid_lat |-> grid_lat,
                _grid_lon |-> grid_lon,
                grid_num_nodes |-> Len(grid_lat) * Len(grid_lon),
                _grid_nodes_lon |->
                    [n \in 1..(Len(grid_lat) * Len(grid_lon)) |->
                        grid_lon[((n - 1) % Len(grid_lon)) + 1]],
                _grid_nodes_lat |->
                    [n \in 1..(Len(grid_lat) * Len(grid_lon)) |->
                        grid_lat[((n - 1) \div Len(grid_lon)) + 1]]])
    /\ pc' = NextStep("grid_properties")
    /\ UNCHANGED merged_mesh
    /\ BuildStepUnchanged

Grid2MeshReads ==
    {"_grid_lat", "_grid_lon", "meshes", "query_radius", "_grid_nodes_lat",
     "_grid_nodes_lon", "_mesh_nodes_lat", "_mesh_nodes_lon",
     "_spatial_features_kwargs"}

\* self._grid2mesh_graph_structure = self._init_grid2mesh_graph()
InitGrid2MeshGraph ==
    /\ pc = "grid2mesh_graph"
    /\ step_log' = Append(step_log,
           StepEntry("grid2mesh_graph", Grid2MeshReads, Attributes))
    /\ IF ~(Grid2MeshReads \subseteq Attributes)
       THEN pc' = "error" /\ UNCHANGED self
       ELSE LET indices == radius_query_indices(self._grid_lat, self._grid_lon,
                                                finest_mesh, self.query_radius)
                features == get_bipartite_graph_spatial_features(
                    [senders_node_lat |-> self._grid_nodes_lat,
                     senders_node_lon |-> self._grid_nodes_lon,
                     receivers_node_lat |-> self._mesh_nodes_lat,
                     receivers_node_lon |-> self._mesh_nodes_lon,
                     senders |-> indices.grid_edge_indices,
                     receivers |-> indices.mesh_edge_indices,
                     edge_normalization_factor |-> <<>>]
                    @@ self._spatial_features_kwargs)
            IN  IF features.raised
                THEN pc' = "error" /\ UNCHANGED self
                ELSE /\ self' = SetAttributes(self,
                            [grid_node_feat |->
                                 expand_dims(features.senders_node_features),
                             grid2mesh_src_index |-> indices.grid_edge_indices,
                             grid2mesh_dst_index |-> indices.mesh_edge_indices,
                             grid2mesh_edge_feat |-> expand_dims(features.edge_features),
                             grid2mesh_num_edges |-> len(features.edge_features),
                             _grid2mesh_graph_structure |-> None])
                     /\ pc' = NextStep("grid2mesh_graph")
    /\ UNCHANGED merged_mesh
    /\ BuildStepUnchanged

MeshGraphReads ==
    {"meshes", "_mesh_nodes_lat", "_mesh_nodes_lon", "_spatial_features_kwargs"}

\* self._mesh_graph_structure = self._init_mesh_graph()
InitMeshGraph ==
    /\ pc = "mesh_graph"
    /\ step_log' = Append(step_log, StepEntry("mesh_graph", MeshGraphReads, Attributes))
    /\ merged_mesh' = merge_meshes(meshes)
    /\ IF merge_meshes(meshes).raised \/ ~(MeshGraphReads \subseteq Attributes)
       THEN pc' = "error" /\ UNCHANGED self
       ELSE LET edges == faces_to_edges(merge_meshes(meshes).faces)
                features == get_graph_spatial_features(
                    [node_lat |-> self._mesh_nodes_lat,
                     node_lon |-> self._mesh_nodes_lon,
                     senders |-> edges.senders,
                     receivers |-> edges.receivers,
                     sine_cosine_encoding |-> FALSE,
                     encoding_num_freqs |-> DefaultEncodingNumFreqs,
                     encoding_multiplicative_factor |-> EncodingMultiplicativeFactor]
                    @@ self._spatial_features_kwargs)
            IN  IF features.raised
                THEN pc' = "error" /\ UNCHANGED self
                ELSE /\ self' = SetAttributes(self,
                            [mesh_node_feat |-> expand_dims(features.node_features),
                             mesh2mesh_src_index |-> edges.senders,
                             mesh2mesh_dst_index |-> edges.receivers,
                             mesh_edge_feat |-> expand_dims(features.edge_features),
                             mesh_num_edges |-> len(features.edge_features),
                             _mesh_graph_structure |-> None])
                     /\ pc' = NextStep("mesh_graph")
    /\ BuildStepUnchanged

\* variant of mesh2grid_edge_normalization_factor: edge_normalization_factor=None
mesh2grid_edge_normalization_factorUnset(object) == <<>>

\* edge_normalization_factor=self._mesh2grid_edge_normalization_factor
mesh2grid_edge_normalization_factor(object) ==
    object._mesh2grid_edge_normalization_factor

Mesh2GridReads ==
    {"_grid_lat", "_grid_lon", "meshes", "_mesh_nodes_lat", "_mesh_nodes_lon",
     "_grid_nodes_lat", "_grid_nodes_lon", "_mesh2grid_edge_normalization_factor",
     "_spatial_features_kwargs"}

\* self._mesh2grid_graph_structure = self._init_mesh2grid_graph()
InitMesh2GridGraph ==
    /\ pc = "mesh2grid_graph"
    /\ step_log' = Append(step_log,
           StepEntry("mesh2grid_graph", Mesh2GridReads, Attributes))
    /\ IF ~(Mesh2GridReads \subseteq Attributes)
       THEN pc' = "error" /\ UNCHANGED self
       ELSE \E tie \in {"lowest", "highest"} :
            LET indices == in_mesh_triangle_indices(self._grid_lat, self._grid_lon,
                                                    finest_mesh, tie)
                features == get_bipartite_graph_spatial_features(
                    [senders_node_lat |-> self._mesh_nodes_lat,
                     senders_node_lon |-> self._mesh_nodes_lon,
                     receivers_node_lat |-> self._grid_nodes_lat,
                     receivers_node_lon |-> self._grid_nodes_lon,
                     senders |-> indices.mesh_edge_indices,
                     receivers |-> indices.grid_edge_indices,
                     edge_normalization_factor |->
                         mesh2grid_edge_normalization_factor(self)]
                    @@ self._spatial_features_kwargs)
            IN  IF features.raised
                THEN pc' = "error" /\ UNCHANGED self
                ELSE /\ self' = SetAttributes(self,
                            [mesh2grid_src_index |-> indices.mesh_edge_indices,
                             mesh2grid_dst_index |-> indices.grid_edge_indices,
                             mesh2grid_edge_feat |-> expand_dims(features.edge_features),
                             mesh2grid_num_edges |-> len(features.edge_features),
                             _mesh2grid_graph_structure |-> None])
                     /\ pc' = NextStep("mesh2grid_graph")
    /\ UNCHANGED merged_mesh
    /\ BuildStepUnchanged

Next ==
    \/ StartSplit
    \/ SplitFace
    \/ FinishSplit
    \/ ReturnHierarchy
    \/ ConfigureBuild
    \/ StoreSupplied
    \/ InitMeshProperties
    \/ InitGridProperties
    \/ InitGrid2MeshGraph
    \/ InitMeshGraph
    \/ InitMesh2GridGraph

Spec == Init /\ [][Next]_vars

(***************************************************************************)
(* The feature encoder on arbitrary small graphs                           *)
(***************************************************************************)
\* node arrays (latitude and longitude in degrees) the calls are given; the
\* first node of each array is at the same position
NodeArrayInputs ==
    { [lat |-> <<0, 90>>, lon |-> <<0, 0>>],
      [lat |-> <<0, 0, -45>>, lon |-> <<0, 90, 200>>] }

\* edges between the nodes 0 and 1 of the sender and of the receiver array
EdgeInputs == SeqsUpTo((0..1) \X (0..1), MaxEdges)

\* the toggles: every combination of the node toggles with the edge toggles
\* of GraphGridMesh.__init__, and every combination of the edge toggles with
\* the node toggles of GraphGridMesh.__init__
ToggleInputs ==
    [add_node_positions : BOOLEAN, add_node_latitude : BOOLEAN,
     add_node_longitude : BOOLEAN, add_relative_positions : {TRUE},
     relative_longitude_local_coordinates : {TRUE},
     relative_latitude_local_coordinates : {TRUE},
     edge_normalization_factor : {<<>>},
     sine_cosine_encoding : BOOLEAN]
    \cup
    [add_node_positions : {FALSE}, add_node_latitude : {TRUE},
     add_node_longitude : {TRUE}, add_relative_positions : BOOLEAN,
     relative_longitude_local_coordinates : BOOLEAN,
     relative_latitude_local_coordinates : BOOLEAN,
     edge_normalization_factor : {<<>>, <<2 * Scale>>},
     sine_cosine_encoding : BOOLEAN]

InitFeatures ==
    /\ pc = "features"
    /\ \E senders_nodes, receivers_nodes \in NodeArrayInputs :
       \E edges \in EdgeInputs :
       \E toggles \in ToggleInputs :
           args = [senders_node_lat |-> senders_nodes.lat,
                   senders_node_lon |-> senders_nodes.lon,
                   receivers_node_lat |-> receivers_nodes.lat,
                   receivers_node_lon |-> receivers_nodes.lon,
                   senders |-> [e \in 1..Len(edges) |-> edges[e][1]],
                   receivers |-> [e \in 1..Len(edges) |-> edges[e][2]],
                   toggles |-> toggles]
    /\ result = None
    /\ splits = 0
    /\ split_i = 0
    /\ current_mesh = None
    /\ output_meshes = <<>>
    /\ builder = NoBuilder
    /\ new_faces = <<>>
    /\ face_pos = 0
    /\ meshes = None
    /\ call_log = <<>>
    /\ GraphIdle
    /\ QueryIdle

\* the keyword arguments of a call of get_graph_spatial_features on the
\* senders' node array
GraphFeatureArguments ==
    [node_lat |-> args.senders_node_lat,
     node_lon |-> args.senders_node_lon,
     senders |-> args.senders,
     receivers |-> args.receivers,
     add_node_positions |-> args.toggles.add_node_positions,
     add_node_latitude |-> args.toggles.add_node_latitude,
     add_node_longitude |-> args.toggles.add_node_longitude,
     add_relative_positions |-> args.toggles.add_relative_positions,
     relative_longitude_local_coordinates |->
         args.toggles.relative_longitude_local_coordinates,
     relative_latitude_local_coordinates |->
         args.toggles.relative_latitude_local_coordinates,
     sine_cosine_encoding |-> args.toggles.sine_cosine_encoding,
     encoding_num_freqs |-> EncodingNumFreqs,
     encoding_multiplicative_factor |-> EncodingMultiplicativeFactor]

\* the keyword arguments of a call of get_bipartite_graph_spatial_features
BipartiteFeatureArguments ==
    [senders_node_lat |-> args.senders_node_lat,
     senders_node_lon |-> args.senders_node_lon,
     senders |-> args.senders,
     receivers_node_lat |-> args.receivers_node_lat,
     receivers_node_lon |-> args.receivers_node_lon,
     receivers |-> args.receivers,
     add_node_positions |-> args.toggles.add_node_positions,
     add_node_latitude |-> args.toggles.add_node_latitude,
     add_node_longitude |-> args.toggles.add_node_longitude,
     add_relative_positions |-> args.toggles.add_relative_positions,
     edge_normalization_factor |-> args.toggles.edge_normalization_factor,
     relative_longitude_local_coordinates |->
         args.toggles.relative_longitude_local_coordinates,
     relative_latitude_local_coordinates |->
         args.toggles.relative_latitude_local_coordinates]

FeatureCallUnchanged ==
    /\ UNCHANGED hierarchy_vars
    /\ UNCHANGED graph_vars
    /\ UNCHANGED query_vars
    /\ UNCHANGED <<meshes, call_log, args>>

\* node_features, edge_features = get_graph_spatial_features(...)
CallGetGraphSpatialFeatures ==
    /\ pc = "features"
    /\ args.toggles.edge_normalization_factor = <<>>
    /\ result' = get_graph_spatial_features(GraphFeatureArguments)
    /\ pc' = "graph_features"
    /\ FeatureCallUnchanged

\* senders_node_features, receivers_node_features, edge_features =
\*     get_bipartite_graph_spatial_features(...)
CallGetBipartiteGraphSpatialFeatures ==
    /\ pc = "features"
    /\ ~args.toggles.sine_cosine_encoding
    /\ result' = get_bipartite_graph_spatial_features(BipartiteFeatureArguments)
    /\ pc' = "bipartite_features"
    /\ FeatureCallUnchanged

\* get_relative_position_in_receiver_local_coordinates(...) on the senders'
\* node array
CallGetRelativePosition ==
    /\ pc = "features"
    /\ args.toggles.add_relative_positions
    /\ args.toggles.edge_normalization_factor = <<>>
    /\ ~args.toggles.sine_cosine_encoding
    /\ LET a == GraphFeatureArguments
           angles == lat_lon_deg_to_spherical(a.node_lat, a.node_lon)
       IN  result' = get_relative_position_in_receiver_local_coordinates(
                         angles.phi, angles.theta, a.senders, a.receivers,
                         a.relative_latitude_local_coordinates,
                         a.relative_longitude_local_coordinates)
    /\ pc' = "relative_position"
    /\ FeatureCallUnchanged

\* get_bipartite_relative_position_in_receiver_local_coordinates(...)
CallGetBipartiteRelativePosition ==
    /\ pc = "features"
    /\ args.toggles.add_relative_positions
    /\ args.toggles.edge_normalization_factor = <<>>
    /\ ~args.toggles.sine_cosine_encoding
    /\ LET a == BipartiteFeatureArguments
           s == lat_lon_deg_to_spherical(a.senders_node_lat, a.senders_node_lon)
           r == lat_lon_deg_to_spherical(a.receivers_node_lat, a.receivers_node_lon)
       IN  result' = get_bipartite_relative_position_in_receiver_local_coordinates(
                         s.phi, s.theta, a.senders, r.phi, r.theta, a.receivers,
                         a.relative_latitude_local_coordinates,
                         a.relative_longitude_local_coordinates)
    /\ pc' = "bipartite_relative_position"
    /\ FeatureCallUnchanged

NextFeatures ==
    \/ CallGetGraphSpatialFeatures
    \/ CallGetBipartiteGraphSpatialFeatures
    \/ CallGetRelativePosition
    \/ CallGetBipartiteRelativePosition

SpecFeatures == InitFeatures /\ [][NextFeatures]_vars

(***************************************************************************)
(* Properties of the feature encoder                                       *)
(***************************************************************************)
\* matrix times position
ApplyMatrix(M, p) ==
    [j \in 1..3 |-> RoundDiv(M[j][1] * p[1] + M[j][2] * p[2] + M[j][3] * p[3], Scale)]

\* unit positions of the nodes of an array given in degrees
UnitPositions(node_lat, node_lon) ==
    [i \in 1..Len(node_lat) |->
        << RoundDiv(CosDeg(node_lon[i]) * SinDeg(90 - node_lat[i]), Scale),
           RoundDiv(SinDeg(node_lon[i]) * SinDeg(90 - node_lat[i]), Scale),
           CosDeg(90 - node_lat[i]) >>]

\* the receivers' node array of the call that led to the current state
ReceiversNodeLat ==
    IF pc \in {"relative_position", "graph_features"}
    THEN args.senders_node_lat ELSE args.receivers_node_lat

ReceiversNodeLon ==
    IF pc \in {"relative_position", "graph_features"}
    THEN args.senders_node_lon ELSE args.receivers_node_lon

SenderPosition(e) ==
    UnitPositions(args.senders_node_lat, args.senders_node_lon)[args.senders[e] + 1]

ReceiverPosition(e) ==
    UnitPositions(ReceiversNodeLat, ReceiversNodeLon)[args.receivers[e] + 1]

\* the rotation matrix of the receiver of edge e
ReceiverMatrix(e) ==
    get_rotation_matrices_to_local_coordinates(
        [i \in 1..Len(ReceiversNodeLon) |-> ReceiversNodeLon[i]],
        [i \in 1..Len(ReceiversNodeLat) |-> 90 - ReceiversNodeLat[i]],
        args.toggles.relative_latitude_local_coordinates,
        args.toggles.relative_longitude_local_coordinates).matrices[args.receivers[e] + 1]

Minus(p, q) == <<p[1] - q[1], p[2] - q[2], p[3] - q[3]>>

LocalCoordinatesRequested ==
    \/ args.toggles.relative_latitude_local_coordinates
    \/ args.toggles.relative_longitude_local_coordinates

\* C12: when neither latitude nor longitude local coordinates are requested,
\* the two relative-position functions never call the rotation engine, do not
\* raise, and return for every edge the sender's unit position minus the
\* receiver's; otherwise both positions of an edge are rotated by the matrix
\* of that edge's receiver before the subtraction.
C12_RelativePosition ==
    pc \in {"relative_position", "bipartite_relative_position"} =>
        /\ ~result.raised
        /\ Len(result.value) = Len(args.senders)
        /\ IF ~LocalCoordinatesRequested
           THEN /\ result.rotation_calls = 0
                /\ \A e \in 1..Len(args.senders) :
                       result.value[e] = Minus(SenderPosition(e), ReceiverPosition(e))
           ELSE /\ result.rotation_calls = 1
                /\ \A e \in 1..Len(args.senders) :
                       result.value[e] =
                           Minus(ApplyMatrix(ReceiverMatrix(e), SenderPosition(e)),
                                 ApplyMatrix(ReceiverMatrix(e), ReceiverPosition(e)))

C12_Witness ==
    /\ pc = "bipartite_relative_position"
    /\ args.toggles.relative_latitude_local_coordinates
    /\ args.toggles.relative_longitude_local_coordinates
    /\ args.senders = <<0, 0>>
    /\ args.receivers = <<1, 0>>
    /\ Len(args.receivers_node_lat) = 3
    /\ result.rotation_calls = 1
    /\ result.value[1] # Minus(SenderPosition(1), ReceiverPosition(1))
    /\ result.value[1] = Minus(ApplyMatrix(ReceiverMatrix(1), SenderPosition(1)),
                               ApplyMatrix(ReceiverMatrix(1), ReceiverPosition(1)))

\* width the three node toggles ask for
ToggledWidth ==
    (IF args.toggles.add_node_positions THEN 3 ELSE 0)
    + (IF args.toggles.add_node_latitude THEN 1 ELSE 0)
    + (IF args.toggles.add_node_longitude THEN 2 ELSE 0)

\* the columns positions, latitude, longitude, in this order, of node i of an
\* array given in degrees
ToggledRow(node_lat, node_lon, i) ==
    (IF args.toggles.add_node_positions
     THEN UnitPositions(node_lat, node_lon)[i] ELSE <<>>)
    \o (IF args.toggles.add_node_latitude THEN <<CosDeg(90 - node_lat[i])>> ELSE <<>>)
    \o (IF args.toggles.add_node_longitude
        THEN <<CosDeg(node_lon[i]), SinDeg(node_lon[i])>> ELSE <<>>)

\* a node feature array is 2-d with one row per node of the array, of the
\* given width
NodeFeatureShape(features, node_lat, width) ==
    /\ features.shape = <<Len(node_lat), width>>
    /\ Len(features.data) = Len(node_lat)
    /\ \A i \in 1..Len(features.data) : Len(features.data[i]) = width

NodeFeatureRows(features, node_lat, node_lon) ==
    \A i \in 1..Len(features.data) :
        features.data[i] = ToggledRow(node_lat, node_lon, i)

\* C15 as stated: the node features returned by both functions always have
\* one row per node and 3*[positions] + 1*[latitude] + 2*[longitude] columns
\* in the order positions, latitude, longitude.
C15_NodeFeaturesAlways ==
    /\ pc = "graph_features" /\ ~result.raised =>
           /\ NodeFeatureShape(result.node_features, args.senders_node_lat, ToggledWidth)
           /\ NodeFeatureRows(result.node_features, args.senders_node_lat,
                              args.senders_node_lon)
    /\ pc = "bipartite_features" /\ ~result.raised =>
           /\ NodeFeatureShape(result.senders_node_features, args.senders_node_lat,
                               ToggledWidth)
           /\ NodeFeatureShape(result.receivers_node_features, args.receivers_node_lat,
                               ToggledWidth)

\* C15 (amended): without sine_cosine_encoding the node features have one row
\* per node and 3*[positions] + 1*[latitude] + 2*[longitude] columns in the
\* order positions, latitude, longitude (zero columns and all rows with the
\* three toggles off); with sine_cosine_encoding get_graph_spatial_features
\* returns one row per node and 2 * encoding_num_freqs times that width.
C15_NodeFeatures ==
    /\ pc = "graph_features" /\ ~result.raised =>
           IF args.toggles.sine_cosine_encoding
           THEN NodeFeatureShape(result.node_features, args.senders_node_lat,
                                 2 * EncodingNumFreqs * ToggledWidth)
           ELSE /\ NodeFeatureShape(result.node_features, args.senders_node_lat,
                                    ToggledWidth)
                /\ NodeFeatureRows(result.node_features, args.senders_node_lat,
                                   args.senders_node_lon)
    /\ pc = "bipartite_features" /\ ~result.raised =>
           /\ NodeFeatureShape(result.senders_node_features, args.senders_node_lat,
                               ToggledWidth)
           /\ NodeFeatureRows(result.senders_node_features, args.senders_node_lat,
                              args.senders_node_lon)
           /\ NodeFeatureShape(result.receivers_node_features, args.receivers_node_lat,
                               ToggledWidth)
           /\ NodeFeatureRows(result.receivers_node_features, args.receivers_node_lat,
                              args.receivers_node_lon)

C15_Witness ==
    /\ pc = "graph_features"
    /\ ~result.raised
    /\ ~args.toggles.sine_cosine_encoding
    /\ ~args.toggles.add_node_positions
    /\ ~args.toggles.add_node_latitude
    /\ ~args.toggles.add_node_longitude
    /\ Len(args.senders_node_lat) = 3
    /\ result.node_features.shape = <<3, 0>>
    /\ result.node_features.data = << <<>>, <<>>, <<>> >>

\* a call with default normalization, relative positions and some edge
DefaultNormalization ==
    /\ pc \in {"graph_features", "bipartite_features"}
    /\ args.toggles.add_relative_positions
    /\ args.toggles.edge_normalization_factor = <<>>
    /\ ~args.toggles.sine_cosine_encoding
    /\ Len(args.senders) > 0

InUnitInterval(x, low) == x # NaN /\ low <= x /\ x <= Scale

\* C17: with default normalization and relative positions enabled, for every
\* non-empty edge set the largest normalized distance is exactly 1, every
\* normalized distance lies in [0, 1] and every normalized relative-position
\* component in [-1, 1], also when all edges have zero length.
C17_NormalizedToUnit ==
    DefaultNormalization =>
        /\ ~result.raised
        /\ \E e \in 1..Len(args.senders) : result.edge_features.data[e][1] = Scale
        /\ \A e \in 1..Len(args.senders) :
               /\ InUnitInterval(result.edge_features.data[e][1], 0)
               /\ \A k \in 2..4 : InUnitInterval(result.edge_features.data[e][k], -Scale)

\* some edge joins two distinct positions
SomeEdgeHasLength ==
    \E e \in 1..Len(args.senders) : SenderPosition(e) # ReceiverPosition(e)

\* the statement of C17 for edge sets with an edge of non-zero length
NormalizedToUnitWithLength ==
    DefaultNormalization /\ SomeEdgeHasLength =>
        /\ ~result.raised
        /\ \E e \in 1..Len(args.senders) : result.edge_features.data[e][1] = Scale
        /\ \A e \in 1..Len(args.senders) :
               /\ InUnitInterval(result.edge_features.data[e][1], 0)
               /\ \A k \in 2..4 : InUnitInterval(result.edge_features.data[e][k], -Scale)

\* all edges of zero length: every edge feature is nan
NaNWithoutLength ==
    DefaultNormalization /\ ~SomeEdgeHasLength =>
        \A e \in 1..Len(args.senders) :
            result.edge_features.data[e] = <<NaN, NaN, NaN, NaN>>

(***************************************************************************)
(* Properties of the construction from a configuration                     *)
(***************************************************************************)
\* the build steps of __init__ in the order of the program text
StepNames ==
    <<"hierarchy", "mesh_properties", "grid_properties", "grid2mesh_graph",
      "mesh_graph", "mesh2grid_graph">>

\* C19: construction from configuration runs each build step once and in the
\* order mesh hierarchy, mesh node properties, grid point set, grid-to-mesh
\* graph, mesh-to-mesh graph, mesh-to-grid graph; every step reads only
\* attributes set before it started; when construction completes all six
\* steps have run and the sixteen public fields are set
C19_BuildOrder ==
    /\ Len(step_log) <= Len(StepNames)
    /\ \A k \in 1..Len(step_log) :
           /\ step_log[k].step = StepNames[k]
           /\ step_log[k].reads \subseteq step_log[k].had
    /\ pc = "done" =>
           /\ Len(step_log) = Len(StepNames)
           /\ PublicFields \subseteq DOMAIN self

\* a construction with at least one split has completed
C19_Witness ==
    /\ pc = "done"
    /\ splits >= 1
    /\ Len(step_log) = Len(StepNames)
    /\ step_log[Len(step_log)].reads = Mesh2GridReads

\* a 1-d array of `count` integers in 0..(bound - 1)
IsIndexArray(array, count, bound) ==
    /\ DOMAIN array = 1..count
    /\ \A e \in 1..count : array[e] \in 0..(bound - 1)

\* a stored array of `count` rows of `width` numbers each
Is2D(array, count, width) ==
    /\ array.shape = <<count, width>>
    /\ DOMAIN array.data = 1..count
    /\ \A i \in 1..count : DOMAIN array.data[i] = 1..width

\* a stored array of `count` blocks of one row of `width` numbers
Is3DSingleton(array, count, width) ==
    /\ array.shape = <<count, 1, width>>
    /\ DOMAIN array.data = 1..count
    /\ \A i \in 1..count :
           /\ DOMAIN array.data[i] = 1..1
           /\ DOMAIN array.data[i][1] = 1..width

\* the index arrays of the three graphs are 1-d integer arrays, one entry per
\* edge, each entry a node of its node set
StoredIndexArrays ==
    /\ IsIndexArray(self.grid2mesh_src_index, self.grid2mesh_num_edges,
                    self.grid_num_nodes)
    /\ IsIndexArray(self.grid2mesh_dst_index, self.grid2mesh_num_edges,
                    self.mesh_num_nodes)
    /\ IsIndexArray(self.mesh2mesh_src_index, self.mesh_num_edges, self.mesh_num_nodes)
    /\ IsIndexArray(self.mesh2mesh_dst_index, self.mesh_num_edges, self.mesh_num_nodes)
    /\ IsIndexArray(self.mesh2grid_src_index, self.mesh2grid_num_edges,
                    self.mesh_num_nodes)
    /\ IsIndexArray(self.mesh2grid_dst_index, self.mesh2grid_num_edges,
                    self.grid_num_nodes)

\* latitude gives one column, longitude two
NodeFeatureWidth == 1 + 2

\* the norm and the three components of the relative position
EdgeFeatureWidth == 1 + 3

\* C16 as stated: the stored node and edge feature arrays are 2-d, node
\* count x width and edge count x width
C16_StoredShapes2D ==
    pc = "done" =>
        /\ StoredIndexArrays
        /\ Is2D(self.grid_node_feat, self.grid_num_nodes, NodeFeatureWidth)
        /\ Is2D(self.mesh_node_feat, self.mesh_num_nodes, NodeFeatureWidth)
        /\ Is2D(self.mesh_edge_feat, self.mesh_num_edges, EdgeFeatureWidth)
        /\ Is2D(self.grid2mesh_edge_feat, self.grid2mesh_num_edges, EdgeFeatureWidth)
        /\ Is2D(self.mesh2grid_edge_feat, self.mesh2grid_num_edges, EdgeFeatureWidth)

\* C16: for each of the three graphs of a GraphGridMesh built from
\* configuration the stored sender and receiver index arrays are 1-d integer
\* arrays, and the stored node and edge feature arrays are 3-d, of shape
\* node count x 1 x feature width and edge count x 1 x feature width, with
\* the feature dimension last
C16_StoredShapes ==
    pc = "done" =>
        /\ StoredIndexArrays
        /\ Is3DSingleton(self.grid_node_feat, self.grid_num_nodes, NodeFeatureWidth)
        /\ Is3DSingleton(self.mesh_node_feat, self.mesh_num_nodes, NodeFeatureWidth)
        /\ Is3DSingleton(self.mesh_edge_feat, self.mesh_num_edges, EdgeFeatureWidth)
        /\ Is3DSingleton(self.grid2mesh_edge_feat, self.grid2mesh_num_edges,
                         EdgeFeatureWidth)
        /\ Is3DSingleton(self.mesh2grid_edge_feat, self.mesh2grid_num_edges,
                         EdgeFeatureWidth)

\* a construction has completed with edges in each of the three graphs
C16_Witness ==
    /\ pc = "done"
    /\ self.grid2mesh_num_edges > 0
    /\ self.mesh_num_edges > 0
    /\ self.mesh2grid_num_edges > 0
    /\ self.mesh_edge_feat.shape = <<self.mesh_num_edges, 1, EdgeFeatureWidth>>

(***************************************************************************)
(* GraphGridMesh.update on an instance built from given arrays             *)
(***************************************************************************)
\* the functions defined in the body of class GraphGridMesh
Methods ==
    {"__init__", "update", "tensor", "init_mesh_properties", "_init_grid_properties",
     "_init_grid2mesh_graph", "_init_mesh_graph", "_init_mesh2grid_graph",
     "_get_max_edge_distance", "grid_node_outputs_to_prediction"}

\* the properties of class GraphGridMesh; none has a setter
Properties == {"finest_mesh"}

\* hasattr(self, name): the instance attributes, the names of the class, and
\* finest_mesh, whose getter self.meshes[-1] is run and raises on an empty list
hasattr(object, name) ==
    IF name \in DOMAIN object \cup Methods
    THEN [raised |-> None, value |-> TRUE]
    ELSE IF name \in Properties
         THEN IF Len(object.meshes) = 0
              THEN [raised |-> "IndexError", value |-> FALSE]
              ELSE [raised |-> None, value |-> TRUE]
         ELSE [raised |-> None, value |-> FALSE]

\* setattr(self, name, value): a property without setter refuses, any other
\* name becomes an instance attribute
setattr(object, name, value) ==
    IF name \in Properties
    THEN [raised |-> "AttributeError", object |-> object]
    ELSE [raised |-> None,
          object |-> [f \in DOMAIN object \cup {name} |->
                         IF f = name THEN value ELSE object[f]]]

\* GraphGridMesh.update(self, name, value)
update(object, name, value) ==
    LET has == hasattr(object, name)
    IN  IF has.raised # None
        THEN [raised |-> has.raised, object |-> object]
        ELSE IF has.value
             THEN setattr(object, name, value)
             ELSE [raised |-> "ValueError", object |-> object]

\* the names update is called with: fields of the instance, attributes only
\* the construction from a configuration sets, names of the class, other names
UpdateNames ==
    {"mesh_num_nodes", "grid2mesh_src_index", "mesh_edge_feat", "meshes",
     "query_radius", "_grid_lat", "tensor", "update", "finest_mesh", "mesh_nodes",
     "name"}

\* the values update is called with
UpdateValues == {<<>>, <<7>>}

\* the instance: meshes and the other attributes in one record
Instance == SetAttributes(self, [meshes |-> meshes])

InitUpdate ==
    /\ pc = "built"
    /\ meshes = <<get_icosahedron>>
    /\ self \in PrecomputedInputs
    /\ merged_mesh = NoMesh
    /\ config = None
    /\ step_log = <<>>
    /\ splits = 0
    /\ split_i = 0
    /\ current_mesh = None
    /\ output_meshes = <<>>
    /\ builder = NoBuilder
    /\ new_faces = <<>>
    /\ face_pos = 0
    /\ call_log = <<>>
    /\ QueryIdle
    /\ CallIdle

\* graph.update(name, value); an exception leaves the instance usable
CallUpdate ==
    /\ pc \in {"built", "updated", "update_error"}
    /\ Len(step_log) < MaxUpdates
    /\ \E name \in UpdateNames, value \in UpdateValues :
           LET outcome == update(Instance, name, value)
           IN  /\ args' = [object |-> Instance, name |-> name, value |-> value]
               /\ result' = [raised |-> outcome.raised]
               /\ meshes' = outcome.object.meshes
               /\ self' = [f \in DOMAIN outcome.object \ {"meshes"} |->
                              outcome.object[f]]
               /\ step_log' = Append(step_log,
                      StepEntry("update", {name}, DOMAIN Instance))
               /\ pc' = IF outcome.raised = None THEN "updated" ELSE "update_error"
    /\ UNCHANGED hierarchy_vars
    /\ UNCHANGED <<merged_mesh, config, call_log>>
    /\ UNCHANGED query_vars

NextUpdate == CallUpdate

SpecUpdate == InitUpdate /\ [][NextUpdate]_vars

UpdateReturned == pc \in {"updated", "update_error"}

\* every attribute the instance had before the call, except `name`, is as before
OthersUnchanged ==
    \A f \in DOMAIN args.object \ {args.name} :
        f \in DOMAIN Instance /\ Instance[f] = args.object[f]

\* the instance has the attributes it had before the call, with their values
InstanceUnchanged ==
    /\ DOMAIN Instance = DOMAIN args.object
    /\ \A f \in DOMAIN args.object : Instance[f] = args.object[f]

\* the call set the attribute `name` to `value` and nothing else
SetExactly ==
    /\ result.raised = None
    /\ DOMAIN Instance = DOMAIN args.object \cup {args.name}
    /\ Instance[args.name] = args.value
    /\ OthersUnchanged

\* C13: update(name, value) with a name that is not a field of the built
\* instance signals an error and leaves every field unchanged; with the name
\* of an existing field it sets exactly that field to the value and leaves
\* all other fields unchanged
C13_UpdateFields ==
    UpdateReturned =>
        IF args.name \in DOMAIN args.object
        THEN SetExactly
        ELSE result.raised # None /\ InstanceUnchanged

\* update with the name of an existing field sets exactly that field
UpdateOfExistingField ==
    (UpdateReturned /\ args.name \in DOMAIN args.object) => SetExactly

\* update with a name that is neither an attribute of the instance nor a name
\* of its class raises ValueError and changes nothing
UpdateOfUnknownName ==
    (UpdateReturned /\ args.name \notin DOMAIN args.object \cup Methods \cup Properties)
        => result.raised = "ValueError" /\ InstanceUnchanged

\* update with the name of a method raises nothing and hides the method
\* behind a new instance attribute
UpdateOfMethodName ==
    (UpdateReturned /\ args.name \in Methods \ DOMAIN args.object)
        => /\ result.raised = None
           /\ args.name \in DOMAIN Instance
           /\ OthersUnchanged

\* update with the name of the property raises and changes nothing
UpdateOfPropertyName ==
    (UpdateReturned /\ args.name \in Properties)
        => result.raised \in {"AttributeError", "IndexError"} /\ InstanceUnchanged

\* update("tensor", value) returned without an error
MethodShadowed ==
    /\ pc = "updated"
    /\ args.name = "tensor"
    /\ "tensor" \notin DOMAIN args.object
    /\ "tensor" \in DOMAIN Instance

(***************************************************************************)
(* Arrays with named dimensions: xarray.DataArray / xarray.Variable        *)
(***************************************************************************)
RECURSIVE Product(_)
\* np.prod; 1 for an empty list
Product(s) == IF s = <<>> THEN 1 ELSE Head(s) * Product(Tail(s))

RECURSIVE Ravel(_, _)
\* offset in the row-major buffer of the element at `index` (0-based) of an
\* array of shape `shape`
Ravel(index, shape) ==
    IF shape = <<>> THEN 0
    ELSE Head(index) * Product(Tail(shape)) + Ravel(Tail(index), Tail(shape))

RECURSIVE Unravel(_, _)
\* the index (0-based) of the element at `offset` of the row-major buffer
Unravel(offset, shape) ==
    IF shape = <<>> THEN <<>>
    ELSE <<offset \div Product(Tail(shape))>>
             \o Unravel(offset % Product(Tail(shape)), Tail(shape))

\* an array: its dimension names, its shape and its row-major buffer
DataArray(dims, shape, data) == [dims |-> dims, shape |-> shape, data |-> data]

\* array[index] for a 0-based index
At(array, index) == array.data[Ravel(index, array.shape) + 1]

\* array.sizes[dim]
SizeOf(array, dim) == array.shape[CHOOSE k \in 1..Len(array.dims) : array.dims[k] = dim]

\* ndarray.reshape(new_shape): the row-major buffer is kept
Reshape(array, new_shape) == [shape |-> new_shape, data |-> array.data]

\* DataArray.transpose(*output_dims)
Transpose(array, output_dims) ==
    LET shape == [k \in 1..Len(output_dims) |-> SizeOf(array, output_dims[k])] \o <<>>
        Source(index) ==
            [d \in 1..Len(array.dims) |->
                index[CHOOSE k \in 1..Len(output_dims) : output_dims[k] = array.dims[d]]]
    IN  DataArray(output_dims, shape,
            [o \in 1..Product(shape) |-> At(array, Source(Unravel(o - 1, shape)))] \o <<>>)

\* list.remove(key) followed by list.insert(0, key), when key is in input_dims
MoveToFront(output_dims, input_dims, key) ==
    IF key \in Range(input_dims)
    THEN <<key>> \o SelectSeq(output_dims, LAMBDA d : d # key)
    ELSE output_dims

\* variant of restore_leading_axes: the keys are taken in the order batch,
\* time, level
restore_leading_axesForward(grid_xarray) ==
    LET input_dims == grid_xarray.dims
    IN  Transpose(grid_xarray,
            MoveToFront(MoveToFront(MoveToFront(input_dims, input_dims, "batch"),
                                    input_dims, "time"),
                        input_dims, "level"))

\* restore_leading_axes(grid_xarray): for leading_key in ["level", "time", "batch"]
restore_leading_axes(grid_xarray) ==
    LET input_dims == grid_xarray.dims
    IN  Transpose(grid_xarray,
            MoveToFront(MoveToFront(MoveToFront(input_dims, input_dims, "level"),
                                    input_dims, "time"),
                        input_dims, "batch"))

(***************************************************************************)
(* stacked_to_dataset and GraphGridMesh.grid_node_outputs_to_prediction    *)
(***************************************************************************)
\* default of the argument preserved_dims
PreservedDims == <<"batch", "lat", "lon">>

\* the variable names of the templates, in the order of sorted()
NameOrder ==
    <<"2m_temperature", "geopotential", "geopotential_at_surface", "land_sea_mask">>

\* sorted(template_dataset.keys())
SortedNames(template_dataset) ==
    SelectSeq(NameOrder, LAMBDA name : name \in DOMAIN template_dataset)

\* `all(dim in template_var.dims for dim in preserved_dims)`
HasPreservedDims(template_var, preserved_dims) ==
    \A k \in 1..Len(preserved_dims) : preserved_dims[k] \in Range(template_var.dims)

\* the positions in template_var.dims of the dims that are not preserved:
\* the keys of unstack_from_channels_sizes[name], in the order of sizes.items()
UnstackPositions(template_var, preserved_dims) ==
    SelectSeq([k \in 1..Len(template_var.dims) |-> k],
              LAMBDA k : template_var.dims[k] \notin Range(preserved_dims))

\* unstack_from_channels_sizes[name].values()
UnstackSizes(template_var, preserved_dims) ==
    LET positions == UnstackPositions(template_var, preserved_dims)
    IN  [k \in 1..Len(positions) |-> template_var.shape[positions[k]]]

\* channels[name] = np.prod(list(unstack_sizes.values()))
Channels(template_var, preserved_dims) ==
    Product(UnstackSizes(template_var, preserved_dims))

\* the value of `index` when the last loop reaches var_names[k]
ChannelIndex(template_dataset, var_names, k, preserved_dims) ==
    SumSeq([j \in 1..(k - 1) |->
               Channels(template_dataset[var_names[j]], preserved_dims)])

\* total_expected_channels
TotalExpectedChannels(template_dataset, preserved_dims) ==
    LET var_names == SortedNames(template_dataset)
    IN  ChannelIndex(template_dataset, var_names, Len(var_names) + 1, preserved_dims)

\* stacked_array.isel(channels=slice(index, index + channels)), then
\* unstack of channels into the dims that are not preserved, then
\* transpose(*template_var.dims)
UnstackedVariable(stacked_array, template_var, index, preserved_dims) ==
    LET positions == UnstackPositions(template_var, preserved_dims)
        unstack_sizes == UnstackSizes(template_var, preserved_dims)
        shape == [k \in 1..Len(template_var.dims) |->
                     IF template_var.dims[k] \in Range(preserved_dims)
                     THEN SizeOf(stacked_array, template_var.dims[k])
                     ELSE template_var.shape[k]] \o <<>>
        Channel(at) == index + Ravel([k \in 1..Len(positions) |-> at[positions[k]]],
                                     unstack_sizes)
        Source(at) ==
            [d \in 1..Len(stacked_array.dims) |->
                IF stacked_array.dims[d] = "channels" THEN Channel(at)
                ELSE at[CHOOSE k \in 1..Len(template_var.dims) :
                            template_var.dims[k] = stacked_array.dims[d]]]
    IN  DataArray(template_var.dims, shape,
            [o \in 1..Product(shape) |->
                At(stacked_array, Source(Unravel(o - 1, shape)))] \o <<>>)

\* variant of ChannelsMismatch: channels beyond the expected ones are ignored
ChannelsMismatchWhenFewer(total_expected_channels, found_channels) ==
    total_expected_channels > found_channels

\* `if total_expected_channels != found_channels`
ChannelsMismatch(total_expected_channels, found_channels) ==
    total_expected_channels # found_channels

\* stacked_to_dataset(stacked_array, template_dataset, preserved_dims): the
\* exception raised and its message, or the dataset returned
stacked_to_dataset(stacked_array, template_dataset, preserved_dims) ==
    LET var_names == SortedNames(template_dataset)
        lacking == SelectSeq(var_names, LAMBDA name :
                       ~HasPreservedDims(template_dataset[name], preserved_dims))
        total_expected_channels == TotalExpectedChannels(template_dataset, preserved_dims)
        found_channels == SizeOf(stacked_array, "channels")
    IN  IF lacking # <<>>
        THEN [raised |-> "ValueError",
              message |-> [requires |-> preserved_dims,
                           found |-> template_dataset[lacking[1]].dims]]
        ELSE IF ChannelsMismatch(total_expected_channels, found_channels)
        THEN [raised |-> "ValueError",
              message |-> [expected |-> total_expected_channels,
                           found |-> found_channels]]
        ELSE [raised |-> None,
              dataset |->
                  [name \in DOMAIN template_dataset |->
                      LET k == CHOOSE j \in 1..Len(var_names) : var_names[j] = name
                      IN  UnstackedVariable(
                              stacked_array, template_dataset[name],
                              ChannelIndex(template_dataset, var_names, k,
                                           preserved_dims),
                              preserved_dims)]]

\* GraphGridMesh.grid_node_outputs_to_prediction(grid_node_outputs,
\* targets_template); reading self._grid_lat or self._grid_lon on an instance
\* that lacks the attribute raises AttributeError
grid_node_outputs_to_prediction(object, grid_node_outputs, targets_template) ==
    IF ~({"_grid_lat", "_grid_lon"} \subseteq DOMAIN object)
    THEN [raised |-> "AttributeError"]
    ELSE
    LET grid_shape == <<Len(object._grid_lat), Len(object._grid_lon)>>
        grid_outputs_lat_lon_leading ==
            Reshape(grid_node_outputs, grid_shape \o Tail(grid_node_outputs.shape))
        dims == <<"lat", "lon", "batch", "channels">>
        grid_xarray_lat_lon_leading ==
            DataArray(dims, grid_outputs_lat_lon_leading.shape,
                      grid_outputs_lat_lon_leading.data)
        grid_xarray == restore_leading_axes(grid_xarray_lat_lon_leading)
    IN  [grid_xarray |-> grid_xarray]
        @@ stacked_to_dataset(grid_xarray, targets_template, PreservedDims)

\* the variables a template is made of, for outputs of the given sizes
TemplateVariable(name, batch, num_lat, num_lon) ==
    CASE name = "2m_temperature" ->
             [dims |-> <<"batch", "time", "lat", "lon">>,
              shape |-> <<batch, 1, num_lat, num_lon>>]
      [] name = "geopotential" ->
             [dims |-> <<"batch", "time", "level", "lat", "lon">>,
              shape |-> <<batch, 1, 2, num_lat, num_lon>>]
      [] name = "geopotential_at_surface" ->
             [dims |-> <<"lat", "lon">>, shape |-> <<num_lat, num_lon>>]
      [] name = "land_sea_mask" ->
             [dims |-> <<"batch", "lat", "lon">>, shape |-> <<batch, num_lat, num_lon>>]

\* the dimension orders restore_leading_axes is called with
LeadingDimsInputs ==
    {<<"lat", "lon", "batch", "channels">>,
     <<"lat", "lon", "batch", "time", "level", "channels">>,
     <<"lat", "lon", "level", "channels">>,
     <<"lat", "lon", "time", "batch">>,
     <<"lat", "lon">>,
     <<"channels", "time", "lat", "level", "lon">>}

\* the size of each dimension of the arrays restore_leading_axes is called with
LeadingDimSize(dim) ==
    CASE dim = "lat" -> 2
      [] dim = "lon" -> 3
      [] dim = "batch" -> 2
      [] dim = "time" -> 1
      [] dim = "level" -> 2
      [] dim = "channels" -> 1

\* an array whose elements are their offsets in the row-major buffer
OffsetArray(shape) == NdArray(shape, [o \in 1..Product(shape) |-> o - 1] \o <<>>)

\* the calls under study: grid resolution in degrees, batch size, channel
\* count, names of the template; the last is a 1-degree grid
PredictionInputs ==
    [resolution : {90, 180}, batch : 1..MaxBatch, channels : 1..MaxChannels,
     names : SUBSET Range(NameOrder)]
    \cup {[resolution |-> 1, batch |-> 1, channels |-> 1, names |-> {"2m_temperature"}]}

\* the instance left by __init__ when all sixteen arrays are given: the
\* sixteen public fields and nothing else
StoredInstance(precomputed) == [field \in PublicFields |-> precomputed[field]]

\* the instances a call is made on, with the grid sizes of a matching
\* template: one built from a configuration of the given resolution and, for
\* the coarsest grid, the ones built from precomputed arrays
PredictionInstances(resolution) ==
    LET grid_lat == Arange(-90, 90 + resolution, resolution) \o <<>>
        grid_lon == Arange(0, 360, resolution) \o <<>>
    IN  {[object |-> [_grid_lat |-> grid_lat, _grid_lon |-> grid_lon],
          num_lat |-> Len(grid_lat), num_lon |-> Len(grid_lon)]}
        \cup {[object |-> StoredInstance(precomputed),
                num_lat |-> precomputed.grid_num_nodes, num_lon |-> 1] :
                  precomputed \in IF resolution = 180 THEN PrecomputedInputs ELSE {}}

InitPrediction ==
    /\ pc = "prediction"
    /\ \E input \in PredictionInputs, dims \in LeadingDimsInputs :
       \E instance \in PredictionInstances(input.resolution) :
               /\ self = instance.object
               /\ args =
                      [grid_node_outputs |->
                           OffsetArray(<<instance.num_lat * instance.num_lon,
                                         input.batch, input.channels>>),
                       targets_template |->
                           [name \in input.names |->
                               TemplateVariable(name, input.batch, instance.num_lat,
                                                instance.num_lon)],
                       grid_xarray |->
                           LET shape == [k \in 1..Len(dims) |-> LeadingDimSize(dims[k])]
                                            \o <<>>
                           IN  DataArray(dims, shape, OffsetArray(shape).data)]
    /\ result = None
    /\ meshes = None
    /\ merged_mesh = NoMesh
    /\ config = None
    /\ step_log = <<>>
    /\ splits = 0
    /\ split_i = 0
    /\ current_mesh = None
    /\ output_meshes = <<>>
    /\ builder = NoBuilder
    /\ new_faces = <<>>
    /\ face_pos = 0
    /\ call_log = <<>>
    /\ QueryIdle

PredictionCallUnchanged ==
    /\ UNCHANGED hierarchy_vars
    /\ UNCHANGED graph_vars
    /\ UNCHANGED query_vars
    /\ UNCHANGED <<meshes, call_log, args>>

\* graph.grid_node_outputs_to_prediction(grid_node_outputs, targets_template)
CallGridNodeOutputsToPrediction ==
    /\ pc = "prediction"
    /\ result' = grid_node_outputs_to_prediction(self, args.grid_node_outputs,
                                                 args.targets_template)
    /\ pc' = CASE result'.raised = None -> "predicted"
               [] result'.raised = "AttributeError" -> "attribute_error"
               [] OTHER -> "prediction_error"
    /\ PredictionCallUnchanged

\* restore_leading_axes(grid_xarray)
CallRestoreLeadingAxes ==
    /\ pc = "prediction"
    /\ result' = restore_leading_axes(args.grid_xarray)
    /\ pc' = "restored"
    /\ PredictionCallUnchanged

NextPrediction ==
    \/ CallGridNodeOutputsToPrediction
    \/ CallRestoreLeadingAxes

SpecPrediction == InitPrediction /\ [][NextPrediction]_vars

PredictionReturned == pc \in {"predicted", "prediction_error"}

\* some variable of the template lacks one of batch, lat, lon
LacksPreservedDims ==
    \E name \in DOMAIN args.targets_template :
        \E dim \in {"batch", "lat", "lon"} :
            dim \notin Range(args.targets_template[name].dims)

\* the sum over the template variables of the product of the sizes of their
\* dimensions other than batch, lat, lon
ExpectedChannels == TotalExpectedChannels(args.targets_template, PreservedDims)

\* the size of the channels axis of the array handed in
FoundChannels == args.grid_node_outputs.shape[3]

\* the call failed with the error that reports the two channel counts
ChannelCountError ==
    /\ result.raised = "ValueError"
    /\ DOMAIN result.message = {"expected", "found"}
    /\ result.message.expected = ExpectedChannels
    /\ result.message.found = FoundChannels
    /\ "dataset" \notin DOMAIN result

\* the call failed with the error that names the preserved dims
PreservedDimsError ==
    /\ result.raised = "ValueError"
    /\ DOMAIN result.message = {"requires", "found"}
    /\ result.message.requires = <<"batch", "lat", "lon">>
    /\ "dataset" \notin DOMAIN result

\* C14 as stated: whenever the expected channel count differs from the one
\* found the reverse mapping fails with the error reporting both counts and
\* produces no dataset; it also fails when a template variable lacks any
\* of batch, lat, lon
C14_ChannelCountErrorAlways ==
    PredictionReturned =>
        /\ ExpectedChannels # FoundChannels => ChannelCountError
        /\ LacksPreservedDims => result.raised # None

\* C14: the reverse mapping fails, producing no dataset, with an error naming
\* the preserved dims when a template variable lacks any of batch, lat, lon,
\* and otherwise with an error reporting the expected and the found channel
\* counts whenever the two differ
C14_ReverseMappingErrors ==
    PredictionReturned =>
        /\ LacksPreservedDims => PreservedDimsError
        /\ (~LacksPreservedDims /\ ExpectedChannels # FoundChannels)
               => ChannelCountError

\* a call failed on the channel counts alone
C14_Witness ==
    /\ pc = "prediction_error"
    /\ ~LacksPreservedDims
    /\ ExpectedChannels # FoundChannels
    /\ result.message.expected = ExpectedChannels

\* a call failed on a template that has both defects
LacksDimsAndChannels ==
    /\ pc = "prediction_error"
    /\ LacksPreservedDims
    /\ ExpectedChannels # FoundChannels

\* the dims of `input_dims` among batch, time, level, in that order, then the
\* others in their relative order
LeadingFirst(input_dims) ==
    SelectSeq(<<"batch", "time", "level">>, LAMBDA d : d \in Range(input_dims))
        \o SelectSeq(input_dims, LAMBDA d : d \notin {"batch", "time", "level"})

\* `after` holds the elements of `before`, each at the same named index
SameElements(before, after) ==
    /\ Range(after.dims) = Range(before.dims)
    /\ \A k \in 1..Len(after.dims) : after.shape[k] = SizeOf(before, after.dims[k])
    /\ \A o \in 1..Product(before.shape) :
           LET index == Unravel(o - 1, before.shape)
           IN  At(after, [k \in 1..Len(after.dims) |->
                             index[CHOOSE d \in 1..Len(before.dims) :
                                       before.dims[d] = after.dims[k]]])
                   = before.data[o]

\* C20: grid_node_outputs_to_prediction maps the flat array
\* [num_lat * num_lon, batch, channels] to dims (batch, lat, lon, channels)
\* with node n at latitude index n div num_lon and longitude index
\* n mod num_lon, the lat and lon sizes being those of the grid (181 x 360 for
\* a 1-degree grid); restore_leading_axes puts the present axes among batch,
\* time, level first in that order and keeps the other axes in their order
C20_GridPrediction ==
    /\ PredictionReturned =>
           LET num_lat == Len(self._grid_lat)
               num_lon == Len(self._grid_lon)
               outputs == args.grid_node_outputs
               grid_xarray == result.grid_xarray
           IN  /\ grid_xarray.dims = <<"batch", "lat", "lon", "channels">>
               /\ grid_xarray.shape
                      = <<outputs.shape[2], num_lat, num_lon, outputs.shape[3]>>
               /\ \A n \in 0..(outputs.shape[1] - 1) :
                  \A b \in 0..(outputs.shape[2] - 1) :
                  \A c \in 0..(outputs.shape[3] - 1) :
                      At(grid_xarray, <<b, n \div num_lon, n % num_lon, c>>)
                          = At(outputs, <<n, b, c>>)
               /\ (self._grid_lat[2] - self._grid_lat[1] = 1
                       /\ self._grid_lon[2] - self._grid_lon[1] = 1)
                      => (num_lat = 181 /\ num_lon = 360)
               /\ pc = "predicted" =>
                      \A name \in DOMAIN result.dataset :
                          /\ SizeOf(result.dataset[name], "lat") = num_lat
                          /\ SizeOf(result.dataset[name], "lon") = num_lon
    /\ pc = "restored" =>
           /\ result.dims = LeadingFirst(args.grid_xarray.dims)
           /\ SameElements(args.grid_xarray, result)

\* the outputs on the 1-degree grid were mapped to a dataset
C20_Witness ==
    /\ pc = "predicted"
    /\ Len(self._grid_lat) = 181
    /\ Len(self._grid_lon) = 360
    /\ At(result.grid_xarray, <<0, 1, 0, 0>>) = 360

\* an array with level, time and batch axes was reordered
LeadingAxesRestored ==
    /\ pc = "restored"
    /\ args.grid_xarray.dims = <<"channels", "time", "lat", "level", "lon">>
    /\ result.dims = <<"time", "level", "channels", "lat", "lon">>

(***************************************************************************)
(* Properties of the two construction paths                                *)
(***************************************************************************)
\* none of the sixteen optional arguments is None
AllGiven == \A field \in PublicFields : Len(args[field]) = 1

\* C21: when all sixteen optional arrays/counts are supplied the constructor
\* stores each in the field of its name unchanged and runs no graph-building
\* step; when at least one is missing the full pipeline runs and every field
\* is computed from the configuration, the supplied values being ignored
C21_ConstructionPaths ==
    /\ pc = "stored" =>
           /\ AllGiven
           /\ DOMAIN self = PublicFields
           /\ \A field \in PublicFields : self[field] = args[field][1]
           /\ Len(step_log) = 1
           /\ step_log[1].step = "hierarchy"
           /\ merged_mesh = NoMesh
    /\ pc \in Range(BuildOrder) => ~AllGiven
    /\ pc = "done" =>
           /\ Len(step_log) = Len(StepNames)
           /\ PublicFields \subseteq DOMAIN self
           /\ self.mesh_num_nodes = Len(finest_mesh.vertices)
           /\ self.grid_num_nodes
                  = Len(Arange(-90, 90 + config.resolution, config.resolution))
                        * Len(Arange(0, 360, config.resolution))
           /\ self.mesh_num_edges = Len(faces_to_edges(merged_mesh.faces).senders)
           /\ \A field \in PublicFields :
                  args[field] # <<>> => self[field] # args[field][1]

\* an instance was built from sixteen given arrays
C21_Witness ==
    /\ pc = "stored"
    /\ AllGiven
    /\ self.grid_num_nodes = 2
    /\ self.mesh2mesh_src_index = <<0, 1>>

\* the pipeline ran although fifteen of the sixteen arrays were given
RebuiltWithOneMissing ==
    /\ pc = "done"
    /\ args.mesh_num_nodes # <<>>
    /\ args.mesh2grid_edge_feat = <<>>
    /\ self.mesh_num_nodes >= 12

\* the names of the feature-inclusion flags
FlagNames ==
    {"add_node_positions", "add_node_latitude", "add_node_longitude",
     "add_relative_positions", "relative_longitude_local_coordinates",
     "relative_latitude_local_coordinates"}

\* the flags handed to the feature encoder have been set
FlagsSet == "_spatial_features_kwargs" \in DOMAIN self

DenseGraph(senders, receivers, count, edge_feat, num_senders, num_receivers) ==
    /\ Len(senders) = Len(receivers)
    /\ count = Len(senders)
    /\ count = edge_feat.shape[1]
    /\ count = Len(edge_feat.data)
    /\ \A e \in 1..Len(senders) : 0 <= senders[e] /\ senders[e] < num_senders
    /\ \A e \in 1..Len(receivers) : 0 <= receivers[e] /\ receivers[e] < num_receivers

\* C22: in every GraphGridMesh built from configuration, for each of the
\* three graphs the sender and receiver index arrays have equal length, the
\* stored edge count equals that length and the row count of the edge
\* feature array, and every index is valid in its node set: grid nodes send
\* in grid-to-mesh and receive in mesh-to-grid, mesh nodes elsewhere
C22_DenseIndices ==
    pc = "done" =>
        /\ DenseGraph(self.grid2mesh_src_index, self.grid2mesh_dst_index,
                      self.grid2mesh_num_edges, self.grid2mesh_edge_feat,
                      self.grid_num_nodes, self.mesh_num_nodes)
        /\ DenseGraph(self.mesh2mesh_src_index, self.mesh2mesh_dst_index,
                      self.mesh_num_edges, self.mesh_edge_feat,
                      self.mesh_num_nodes, self.mesh_num_nodes)
        /\ DenseGraph(self.mesh2grid_src_index, self.mesh2grid_dst_index,
                      self.mesh2grid_num_edges, self.mesh2grid_edge_feat,
                      self.mesh_num_nodes, self.grid_num_nodes)

\* a construction has completed with more grid nodes than mesh nodes and a
\* grid node beyond the mesh node count on each side
C22_Witness ==
    /\ pc = "done"
    /\ self.grid_num_nodes > self.mesh_num_nodes
    /\ \E e \in 1..self.grid2mesh_num_edges :
           self.grid2mesh_src_index[e] >= self.mesh_num_nodes
    /\ \E e \in 1..self.mesh2grid_num_edges :
           self.mesh2grid_dst_index[e] >= self.mesh_num_nodes

\* the first column of a stored edge feature array: the normalized distances
NormalizedDistances(edge_feat) ==
    [e \in 1..edge_feat.shape[1] |-> edge_feat.data[e][1][1]]

\* the lengths of the mesh-to-grid edges in the receivers' local coordinates
Mesh2GridDistances ==
    LET s == lat_lon_deg_to_spherical(self._mesh_nodes_lat, self._mesh_nodes_lon)
        r == lat_lon_deg_to_spherical(self._grid_nodes_lat, self._grid_nodes_lon)
    IN  Norms(get_bipartite_relative_position_in_receiver_local_coordinates(
                  s.phi, s.theta, self.mesh2grid_src_index,
                  r.phi, r.theta, self.mesh2grid_dst_index, TRUE, TRUE).value)

\* C24: the mesh-to-grid edge features are divided by the configured
\* mesh2grid_edge_normalization_factor when it is set and by the maximum edge
\* distance of the mesh-to-grid edge set when it is unset; the grid-to-mesh
\* and mesh-to-mesh edge features are always divided by the maximum edge
\* distance of their own edge set, never by the configured factor
C24_NormalizationPerGraph ==
    pc = "done" =>
        /\ ArrayMax(NormalizedDistances(self.grid2mesh_edge_feat)) = Scale
        /\ ArrayMax(NormalizedDistances(self.mesh_edge_feat)) = Scale
        /\ LET distances == Mesh2GridDistances
               factor == IF config.mesh2grid_edge_normalization_factor = <<>>
                         THEN ArrayMax(distances)
                         ELSE config.mesh2grid_edge_normalization_factor[1]
           IN  \A e \in 1..self.mesh2grid_num_edges :
                   self.mesh2grid_edge_feat.data[e][1][1]
                       = RoundDiv(distances[e] * Scale, factor)
        /\ config.mesh2grid_edge_normalization_factor = <<>> =>
               ArrayMax(NormalizedDistances(self.mesh2grid_edge_feat)) = Scale

\* a construction has completed with a configured factor that is not the
\* longest mesh-to-grid edge
C24_Witness ==
    /\ pc = "done"
    /\ config.mesh2grid_edge_normalization_factor = <<2 * Scale>>
    /\ ArrayMax(NormalizedDistances(self.mesh2grid_edge_feat)) < Scale
    /\ ArrayMax(NormalizedDistances(self.grid2mesh_edge_feat)) = Scale


(***************************************************************************)
(* Properties of the edge feature arrays                                   *)
(***************************************************************************)
EdgeFeaturesReturned ==
    \/ pc = "graph_features" /\ ~args.toggles.sine_cosine_encoding
    \/ pc = "bipartite_features"

RelativeWidth == IF args.toggles.add_relative_positions THEN 4 ELSE 0

EmptyEdgeSet == Len(args.senders) = 0

\* C23: for every edge set, the empty one included, both feature functions
\* return an edge feature array with one row per edge and 4 columns when
\* add_relative_positions is set, 0 columns otherwise.
C23_EdgeFeatureShape ==
    EdgeFeaturesReturned =>
        /\ ~result.raised
        /\ result.edge_features.shape = <<Len(args.senders), RelativeWidth>>

\* the shape is the claimed one for every edge set that has an edge, and for
\* the empty one when no maximum over the edges is taken
EdgeFeatureShapeWhenReturned ==
    EdgeFeaturesReturned /\ ~result.raised =>
        result.edge_features.shape = <<Len(args.senders), RelativeWidth>>

\* the maximum over an empty edge set raises in both functions
EmptyEdgeSetRaises ==
    /\ pc = "graph_features" /\ EmptyEdgeSet /\ args.toggles.add_relative_positions
           => result.raised
    /\ pc = "bipartite_features" /\ EmptyEdgeSet /\ args.toggles.add_relative_positions
       /\ args.toggles.edge_normalization_factor = <<>>
           => result.raised

RaisedOnlyOnEmptyEdgeSet ==
    EdgeFeaturesReturned /\ result.raised =>
        EmptyEdgeSet /\ args.toggles.add_relative_positions

EmptyEdgeSetGraphCall ==
    /\ pc = "graph_features"
    /\ EmptyEdgeSet
    /\ args.toggles.add_relative_positions
    /\ result.raised

EmptyEdgeSetBipartiteCall ==
    /\ pc = "bipartite_features"
    /\ EmptyEdgeSet
    /\ args.toggles.add_relative_positions
    /\ args.toggles.edge_normalization_factor = <<>>
    /\ result.raised

EmptyEdgeSetWithFactor ==
    /\ pc = "bipartite_features"
    /\ EmptyEdgeSet
    /\ args.toggles.add_relative_positions
    /\ args.toggles.edge_normalization_factor # <<>>
    /\ ~result.raised
    /\ result.edge_features.shape = <<0, 4>>


(***************************************************************************)
(* Properties of the sine and cosine encoding                              *)
(***************************************************************************)
\* the arrays the same call returns without sine_cosine_encoding
PlainFeatures ==
    get_graph_spatial_features(
        [GraphFeatureArguments EXCEPT !.sine_cosine_encoding = FALSE])

EncodedCall ==
    /\ pc = "graph_features"
    /\ args.toggles.sine_cosine_encoding
    /\ ~PlainFeatures.raised

\* y is the encoding of the [N, F] array x: N rows of F * 2 * num_freqs
\* columns, per feature the sines of f_k * x for k = 0..num_freqs-1 and then
\* the cosines, the features in their order
IsEncodingOf(y, x) ==
    /\ y.shape = <<x.shape[1], x.shape[2] * 2 * EncodingNumFreqs>>
    /\ \A i \in 1..x.shape[1] :
           /\ Len(y.data[i]) = x.shape[2] * 2 * EncodingNumFreqs
           /\ \A f \in 1..x.shape[2] : \A k \in 0..(EncodingNumFreqs - 1) :
                  LET first == (f - 1) * 2 * EncodingNumFreqs
                      phase == Phase(EncodingMultiplicativeFactor, k, x.data[i][f])
                  IN  /\ y.data[i][first + k + 1] = SinRad(phase)
                      /\ y.data[i][first + EncodingNumFreqs + k + 1] = CosRad(phase)

\* C26: with sine_cosine_encoding, get_graph_spatial_features replaces the
\* node and the edge feature array by their encoding: [N, F] becomes
\* [N, F * 2 * num_freqs], per feature sin(f_k * x) for k = 0..num_freqs-1 and
\* then cos(f_k * x), the features in their order, whatever N and F are.
C26_SineCosineEncoding ==
    EncodedCall =>
        /\ ~result.raised
        /\ IsEncodingOf(result.node_features, PlainFeatures.node_features)
        /\ IsEncodingOf(result.edge_features, PlainFeatures.edge_features)

\* the encoding is the claimed one whenever both arrays have a row
EncodingOfArraysWithRows ==
    EncodedCall /\ PlainFeatures.edge_features.shape[1] > 0 =>
        /\ ~result.raised
        /\ IsEncodingOf(result.node_features, PlainFeatures.node_features)
        /\ IsEncodingOf(result.edge_features, PlainFeatures.edge_features)

\* the reshape of the encoding raises for an array without rows
EncodingOfNoRowsRaises ==
    EncodedCall /\ PlainFeatures.edge_features.shape[1] = 0 => result.raised

EncodedWithoutColumns ==
    /\ EncodedCall
    /\ ~result.raised
    /\ PlainFeatures.node_features.shape[2] = 0
    /\ result.node_features.shape = <<Len(args.senders_node_lat), 0>>
    /\ result.edge_features.shape = <<2, 4 * 2 * EncodingNumFreqs>>

EncodedNoRows ==
    /\ EncodedCall
    /\ PlainFeatures.edge_features.shape = <<0, 0>>
    /\ result.raised

\* the frequencies are the powers of the multiplicative factor
FrequenciesArePowers ==
    /\ Freq(EncodingMultiplicativeFactor, 0) = Scale
    /\ \A k \in 1..EncodingNumFreqs :
           Freq(EncodingMultiplicativeFactor, k) * Scale
               = EncodingMultiplicativeFactor * Freq(EncodingMultiplicativeFactor, k - 1)


(***************************************************************************)
(* Properties of the flattened grid node index                             *)
(***************************************************************************)
\* the latitude and the longitude index that the flat index n denotes
LatIndexOf(n) == n \div Len(self._grid_lon)

LonIndexOf(n) == n % Len(self._grid_lon)

\* the point on the unit sphere at the latitude and longitude that n denotes
PositionOf(n) ==
    GridLatLonToCoordinates(<<self._grid_lat[LatIndexOf(n) + 1]>>,
                            <<self._grid_lon[LonIndexOf(n) + 1]>>)[1][1]

GridNodes == 0..(self.grid_num_nodes - 1)

\* the grid node arrays used for the features are latitude-major
NodeArraysLatitudeMajor ==
    /\ Len(self._grid_nodes_lat) = self.grid_num_nodes
    /\ Len(self._grid_nodes_lon) = self.grid_num_nodes
    /\ \A n \in GridNodes :
           /\ self._grid_nodes_lat[n + 1] = self._grid_lat[LatIndexOf(n) + 1]
           /\ self._grid_nodes_lon[n + 1] = self._grid_lon[LonIndexOf(n) + 1]

\* the radius query pairs grid node n with the mesh vertices within the query
\* radius of the position that n denotes
RadiusQueryLatitudeMajor ==
    LET positions == [g \in 1..self.grid_num_nodes |-> PositionOf(g - 1)] \o <<>>
        vertices == finest_mesh.vertices
        pairs == {<<self.grid2mesh_src_index[e], self.grid2mesh_dst_index[e]>> :
                      e \in 1..self.grid2mesh_num_edges}
    IN  pairs = {p \in GridNodes \X (0..(self.mesh_num_nodes - 1)) :
                    SquaredDistance(vertices[p[2] + 1], positions[p[1] + 1])
                        <= self.query_radius * self.query_radius}

\* the point-location query gives grid node n the three vertices of a face
\* nearest to the position that n denotes
PointLocationLatitudeMajor ==
    LET mesh == finest_mesh
        faces == 0..(Len(mesh.faces) - 1)
    IN  \A n \in GridNodes :
            LET position == PositionOf(n)
                smallest == MinOfSet({FaceDistance(mesh, g, position) : g \in faces})
            IN  /\ \A k \in 1..3 : self.mesh2grid_dst_index[3 * n + k] = n
                /\ \E f \in faces :
                       /\ mesh.faces[f + 1]
                              = <<self.mesh2grid_src_index[3 * n + 1],
                                  self.mesh2grid_src_index[3 * n + 2],
                                  self.mesh2grid_src_index[3 * n + 3]>>
                       /\ FaceDistance(mesh, f, position) = smallest

\* the reverse mapping puts the output of node n at the latitude and the
\* longitude index that n denotes
ReshapeLatitudeMajor ==
    LET outputs == OffsetArray(<<self.grid_num_nodes, 1, 1>>)
        template == [name \in {"2m_temperature"} |->
                        TemplateVariable(name, 1, Len(self._grid_lat),
                                         Len(self._grid_lon))]
        prediction == grid_node_outputs_to_prediction(self, outputs, template)
    IN  /\ prediction.grid_xarray.shape
               = <<1, Len(self._grid_lat), Len(self._grid_lon), 1>>
        /\ \A n \in GridNodes :
               At(prediction.grid_xarray, <<0, LatIndexOf(n), LonIndexOf(n), 0>>) = n

\* C28: flat grid node index n denotes latitude index n div num_lon and
\* longitude index n mod num_lon in the grid node lat/lon arrays, in the
\* positions of the radius query and of the point-location query and in the
\* reshape of the reverse mapping, and grid_num_nodes = num_lat * num_lon
C28_FlatGridIndex ==
    pc = "done" =>
        /\ self.grid_num_nodes = Len(self._grid_lat) * Len(self._grid_lon)
        /\ NodeArraysLatitudeMajor
        /\ RadiusQueryLatitudeMajor
        /\ PointLocationLatitudeMajor
        /\ ReshapeLatitudeMajor

\* a construction has completed on a grid with different numbers of
\* latitudes and longitudes, with an edge from a grid node of the second
\* latitude row
C28_Witness ==
    /\ pc = "done"
    /\ Len(self._grid_lat) # Len(self._grid_lon)
    /\ Len(self._grid_lat) > 1
    /\ \E e \in 1..self.grid2mesh_num_edges :
           /\ self.grid2mesh_src_index[e] >= Len(self._grid_lon)
           /\ LonIndexOf(self.grid2mesh_src_index[e]) > 0
    /\ self.mesh2grid_num_edges = 3 * self.grid_num_nodes


(***************************************************************************)
(* The reverse mapping after either construction path                      *)
(***************************************************************************)
ReverseMappingCalled == pc \in {"predicted", "prediction_error", "attribute_error"}

HasGridAxes == {"_grid_lat", "_grid_lon"} \subseteq DOMAIN self

BuiltFromArrays == DOMAIN self = PublicFields

\* the template has the grid sizes of the flat array handed to the call
MatchingTemplate ==
    \A name \in DOMAIN args.targets_template :
        LET variable == args.targets_template[name]
            Size(dim) == variable.shape[CHOOSE k \in 1..Len(variable.dims) :
                                            variable.dims[k] = dim]
        IN  Size("lat") * Size("lon") = args.grid_node_outputs.shape[1]

\* C29: grid_node_outputs_to_prediction is usable whichever construction path
\* built the instance: the grid latitude and longitude axes are defined after
\* construction from precomputed arrays as well as from configuration, so a
\* call with a matching template does not fail on a missing field.
C29_UsableOnEveryPath ==
    ReverseMappingCalled /\ MatchingTemplate =>
        /\ HasGridAxes
        /\ result.raised # "AttributeError"

\* after construction from configuration the call reaches the reshape
UsableWhenConfigured ==
    ReverseMappingCalled /\ HasGridAxes =>
        /\ result.raised # "AttributeError"
        /\ result.grid_xarray.shape[2] = Len(self._grid_lat)
        /\ result.grid_xarray.shape[3] = Len(self._grid_lon)

\* after construction from precomputed arrays the call fails on the field
MissingFieldWhenStored ==
    ReverseMappingCalled /\ BuiltFromArrays =>
        /\ ~HasGridAxes
        /\ result = [raised |-> "AttributeError"]

\* construction leaves the grid axes set exactly when it ran the pipeline
GridAxesOnlyFromConfiguration ==
    /\ pc = "stored" => BuiltFromArrays /\ ~HasGridAxes
    /\ pc = "done" => HasGridAxes

MissingFieldCall ==
    /\ pc = "attribute_error"
    /\ BuiltFromArrays
    /\ MatchingTemplate
    /\ self.grid_num_nodes = 2
    /\ args.grid_node_outputs.shape[1] = 2
    /\ DOMAIN args.targets_template # {}

StoredWithoutGridAxes ==
    /\ pc = "stored"
    /\ ~HasGridAxes


(***************************************************************************)
(* One subdivision pass shared by concurrent workers                       *)
(***************************************************************************)
RECURSIVE SplitFaces(_, _, _)
\* the loop of _two_split_unit_sphere_triangle_faces from face k on: the
\* builder and the list new_faces after the last face
SplitFaces(b, faces, k) ==
    IF k > Len(faces)
    THEN [builder |-> b, faces |-> <<>>]
    ELSE LET r == SplitOneFace(b, faces[k])
             rest == SplitFaces(r.builder, faces, k + 1)
         IN  [builder |-> rest.builder, faces |-> r.faces \o rest.faces]

\* _two_split_unit_sphere_triangle_faces(triangular_mesh), face after face
_two_split_unit_sphere_triangle_faces(triangular_mesh) ==
    LET r == SplitFaces(NewChildVerticesBuilder(triangular_mesh.vertices),
                        triangular_mesh.faces, 1)
    IN  TriangularMesh(GetAllVertices(r.builder), r.faces)

\* the mesh of the pass: the first faces of the icosahedron
PassMesh ==
    TriangularMesh(IcosahedronVertices, SubSeq(IcosahedronFaces, 1, NumPassFaces))

Workers == 1..NumWorkers

\* a worker between two faces
IdleWorker == [face |-> 0, indices |-> <<>>]

\* args.workers[w]: the parent face worker w holds (0 for none) and the
\* indices ind12, ind23, ind31 it has got so far; args.taken: the faces handed out
InitWorkers ==
    /\ pc = "workers"
    /\ current_mesh = PassMesh
    /\ builder = NewChildVerticesBuilder(PassMesh.vertices)
    /\ new_faces = <<>>
    /\ face_pos = 0
    /\ args = [workers |-> [w \in Workers |-> IdleWorker], taken |-> {}]
    /\ result = None
    /\ splits = 0
    /\ split_i = 0
    /\ output_meshes = <<>>
    /\ meshes = None
    /\ call_log = <<>>
    /\ GraphIdle
    /\ QueryIdle

WorkerStepUnchanged ==
    /\ UNCHANGED <<splits, split_i, current_mesh, output_meshes, meshes, call_log>>
    /\ UNCHANGED graph_vars
    /\ UNCHANGED query_vars

\* worker w takes a face of triangular_mesh.faces that no worker has taken
TakeFace(w, f) ==
    /\ pc = "workers"
    /\ args.workers[w].face = 0
    /\ f \notin args.taken
    /\ args' = [args EXCEPT !.workers[w] = [face |-> f, indices |-> <<>>],
                            !.taken = @ \cup {f}]
    /\ face_pos' = face_pos + 1
    /\ UNCHANGED <<pc, builder, new_faces, result>>
    /\ WorkerStepUnchanged

\* the k-th pair of a face: (ind1, ind2), (ind2, ind3), (ind3, ind1)
FacePair(face, k) == <<face[k], face[(k % 3) + 1]>>

\* worker w makes its next call of get_new_child_vertex_index, lookup and
\* creation in one step on the shared builder
WorkerGetNewChildVertexIndex(w) ==
    /\ pc = "workers"
    /\ args.workers[w].face # 0
    /\ Len(args.workers[w].indices) < 3
    /\ LET face == current_mesh.faces[args.workers[w].face]
           r == GetNewChildVertexIndex(
                    builder, FacePair(face, Len(args.workers[w].indices) + 1))
       IN  /\ builder' = r.builder
           /\ args' = [args EXCEPT !.workers[w].indices = Append(@, r.index)]
    /\ UNCHANGED <<pc, new_faces, face_pos, result>>
    /\ WorkerStepUnchanged

\* worker w extends new_faces by the four child faces of its face
WorkerExtendNewFaces(w) ==
    /\ pc = "workers"
    /\ Len(args.workers[w].indices) = 3
    /\ LET face == current_mesh.faces[args.workers[w].face]
           indices == args.workers[w].indices
       IN  new_faces' = new_faces \o ChildFaces(face, indices[1], indices[2], indices[3])
    /\ args' = [args EXCEPT !.workers[w] = IdleWorker]
    /\ UNCHANGED <<pc, builder, face_pos, result>>
    /\ WorkerStepUnchanged

\* all faces are split: the mesh of the pass is returned
ReturnPass ==
    /\ pc = "workers"
    /\ face_pos = Len(current_mesh.faces)
    /\ \A w \in Workers : args.workers[w].face = 0
    /\ result' = TriangularMesh(GetAllVertices(builder), new_faces)
    /\ pc' = "workers_done"
    /\ UNCHANGED <<builder, new_faces, face_pos, args>>
    /\ WorkerStepUnchanged

NextWorkers ==
    \/ \E w \in Workers : \E f \in 1..Len(current_mesh.faces) : TakeFace(w, f)
    \/ \E w \in Workers : WorkerGetNewChildVertexIndex(w)
    \/ \E w \in Workers : WorkerExtendNewFaces(w)
    \/ ReturnPass

SpecWorkers == InitWorkers /\ [][NextWorkers]_vars

(***************************************************************************)
(* Properties of the shared pass                                           *)
(***************************************************************************)
\* the number of calls made so far for face f
CallsMadeFor(f) ==
    IF f \notin args.taken THEN 0
    ELSE IF \E w \in Workers : args.workers[w].face = f
    THEN Len(args.workers[CHOOSE w \in Workers : args.workers[w].face = f].indices)
    ELSE 3

\* the two vertices of the k-th pair of face f
EdgeOf(f, k) ==
    LET pair == FacePair(current_mesh.faces[f], k)
    IN  {pair[1], pair[2]}

\* the parent edges asked for so far
RequestedEdges ==
    UNION {{EdgeOf(f, k) : k \in 1..CallsMadeFor(f)} :
               f \in 1..Len(current_mesh.faces)}

ChildVertices ==
    SubSeq(builder.all_vertices_list, Len(current_mesh.vertices) + 1,
           Len(builder.all_vertices_list))

\* the midpoint vertex of a parent edge
MidpointOf(edge) ==
    ChildVertexPosition(current_mesh.vertices,
                        <<MinOfSet(edge), -MinOfSet({-v : v \in edge})>>)

\* the faces of a mesh, each as the triple of the positions of its vertices
FacePositions(mesh) ==
    {[k \in 1..3 |-> mesh.vertices[mesh.faces[f][k] + 1]] : f \in 1..Len(mesh.faces)}

\* C27: when concurrent workers split the faces of one pass in any
\* interleaving, each call of get_new_child_vertex_index being one atomic
\* step on the shared builder, the pass creates exactly one midpoint vertex
\* per unique parent edge and no duplicate, the parent vertices stay the
\* prefix of the vertex list, and the vertex and face counts of the result
\* are those of the sequential pass.
C27_ConcurrentPass ==
    pc \in {"workers", "workers_done"} =>
        /\ IsPrefixOf(current_mesh.vertices, builder.all_vertices_list)
        /\ Len(ChildVertices) = Cardinality(RequestedEdges)
        /\ \A edge \in RequestedEdges :
               Cardinality({i \in 1..Len(ChildVertices) :
                               ChildVertices[i] = MidpointOf(edge)}) = 1
        /\ \A i, j \in 1..Len(ChildVertices) :
               i # j => ChildVertices[i] # ChildVertices[j]
        /\ \A w \in Workers : \A k \in 1..Len(args.workers[w].indices) :
               builder.all_vertices_list[args.workers[w].indices[k] + 1]
                   = MidpointOf(EdgeOf(args.workers[w].face, k))
        /\ pc = "workers_done" =>
               LET sequential == _two_split_unit_sphere_triangle_faces(current_mesh)
               IN  /\ IsPrefixOf(current_mesh.vertices, result.vertices)
                   /\ Len(result.vertices) = Len(sequential.vertices)
                   /\ Len(result.vertices)
                          = Len(current_mesh.vertices)
                                + Cardinality(UndirectedEdges(current_mesh.faces))
                   /\ Len(result.faces) = Len(sequential.faces)
                   /\ Len(result.faces) = 4 * Len(current_mesh.faces)
                   /\ FacePositions(result) = FacePositions(sequential)

\* a pass has returned whose midpoints were created in another order than
\* in the sequential pass
C27_Witness ==
    /\ pc = "workers_done"
    /\ result.vertices # _two_split_unit_sphere_triangle_faces(current_mesh).vertices
    /\ Len(result.vertices) > Len(current_mesh.vertices)
    /\ Len(result.faces) = 4 * NumPassFaces

\* two workers hold faces that share an edge; both asked for its midpoint
\* and got the same index
SharedEdgeAskedTwice ==
    /\ pc = "workers"
    /\ \E v, w \in Workers :
           /\ v # w
           /\ args.workers[v].face # 0
           /\ args.workers[w].face # 0
           /\ \E j \in 1..Len(args.workers[v].indices) :
              \E k \in 1..Len(args.workers[w].indices) :
                  /\ EdgeOf(args.workers[v].face, j) = EdgeOf(args.workers[w].face, k)
                  /\ args.workers[v].indices[j] = args.workers[w].indices[k]

====
